---------------------------- MODULE Spec2Model ----------------------------
(***************************************************************************)
(* The statement-ingestion pipeline of the personal finance dashboard:     *)
(* read_scotiabank_csv / load_and_normalize_files / remove_internal_       *)
(* transfers (io_utils.py), clean_transactions (cleaning.py),              *)
(* classify_transactions (classify.py) and the session handlers of         *)
(* streamlit_app.py that chain them.                                       *)
(*                                                                         *)
(* Text is a sequence of one-character strings, so that substring tests,   *)
(* lower-casing and the regular expressions act as they do in the code.    *)
(* A date is a day ordinal (days since 1970-01-01).  An amount is an       *)
(* integer number of thousandths of a dollar.  An optional value is <<>>   *)
(* (None / NaN / NaT) or <<v>>.                                            *)
(***************************************************************************)
EXTENDS Integers, Sequences, FiniteSets, TLC

VARIABLES
    tr_pc,        \* remove_internal_transfers: "start" | "done"
    tr_df,        \* its argument df
    tr_tol,       \* its argument tolerance_days
    tr_out,       \* the table it returns
    tr_matched,   \* the pairs <<pos_idx, neg_idx>> its loop matched, in order
    cl_pc,        \* clean_transactions applied: "start" | "once" | "twice"
    cl_df,        \* its argument df
    cl_once,      \* clean_transactions(df)
    cl_twice,     \* clean_transactions(clean_transactions(df))
    lk_pc,        \* deterministic_lookup: "start" | "done"
    lk_desc,      \* the description of the row
    lk_result,    \* deterministic_lookup(normalize(description))
    rd_pc,        \* read_scotiabank_csv: "start" | "done"
    rd_header,    \* the names of the columns of the file, as they stand in it
    rd_rows,      \* the lines of the file after the header, as cells by column
    rd_raised,    \* the exception read_scotiabank_csv raised, or "none"
    rd_out,       \* the table it returned
    API_URL,      \* os.getenv("PF_CLASSIFY_API_URL"): None or <<string>>
    API_KEY,      \* os.getenv("PF_CLASSIFY_API_KEY"): None or <<string>>
    service,      \* the remote service: None where it may answer a request in
                  \* any way, or the reply it gives to each description
    st_cache,     \* the entries of @st.cache_data, for each cached function
    api_cache,    \* the entries of @lru_cache, least recently used first
    session_state,  \* st.session_state
    transformed,  \* what the last run of the body of transform_dataset did
    uploaded_files, \* the files in the uploader, as indices of FILES
    page,         \* what the last run of main() has shown
    runs,         \* the runs of main() so far
    en_df,        \* classify_transactions: the argument df of the last call
    en_use_api,   \* its argument use_api
    en_out,       \* None, or what the last call raised, returned and requested
    en_sent,      \* the requests sent since the process began, by description
    en_statements \* the statements classified since the process began

trVars == <<tr_pc, tr_df, tr_tol, tr_out, tr_matched>>
clVars == <<cl_pc, cl_df, cl_once, cl_twice>>
lkVars == <<lk_pc, lk_desc, lk_result>>
rdVars == <<rd_pc, rd_header, rd_rows, rd_raised, rd_out>>
enVars == <<en_df, en_use_api, en_out, en_sent, en_statements>>
appVars == <<API_URL, API_KEY, service, st_cache, api_cache, session_state, transformed,
             uploaded_files, page, runs>>
vars == <<trVars, clVars, lkVars, rdVars, enVars, appVars>>

(***************************************************************************)
(* Bounds of the model.                                                    *)
(***************************************************************************)
MaxRows == 3
MaxCleanRows == 2
MaxReadRows == 2
MaxStatements == 4
StatementRows == 32
MaxRequests == 2

(***************************************************************************)
(* Python str helpers.                                                     *)
(***************************************************************************)
UpperToLower ==
    [A |-> "a", B |-> "b", C |-> "c", D |-> "d", E |-> "e", F |-> "f", G |-> "g",
     H |-> "h", I |-> "i", J |-> "j", K |-> "k", L |-> "l", M |-> "m", N |-> "n",
     O |-> "o", P |-> "p", Q |-> "q", R |-> "r", S |-> "s", T |-> "t", U |-> "u",
     V |-> "v", W |-> "w", X |-> "x", Y |-> "y", Z |-> "z"]

LowerChar(c) == IF c \in DOMAIN UpperToLower THEN UpperToLower[c] ELSE c

\* str.lower()
Lower(s) == [i \in 1..Len(s) |-> LowerChar(s[i])]

\* the index labels 1..n as a sequence
RangeIndex(n) == [k \in 1..n |-> k]

\* needle in hay
Contains(hay, needle) ==
    \E i \in 0..(Len(hay) - Len(needle)) : SubSeq(hay, i + 1, i + Len(needle)) = needle

Abs(n) == IF n < 0 THEN -n ELSE n

Min(S) == CHOOSE x \in S : \A y \in S : x <= y

Max(S) == CHOOSE x \in S : \A y \in S : x >= y

\* the first index k with P(k), or 0
FirstIndex(n, P(_)) == IF \E k \in 1..n : P(k) THEN Min({k \in 1..n : P(k)}) ELSE 0

\* the characters \s matches and str.strip() strips
Whitespace == {" ", "\t", "\n", "\r"}

Digits == {"0", "1", "2", "3", "4", "5", "6", "7", "8", "9"}

DigitChars == <<"0", "1", "2", "3", "4", "5", "6", "7", "8", "9">>

Letters == DOMAIN UpperToLower \cup {UpperToLower[c] : c \in DOMAIN UpperToLower}

\* the characters \w matches
WordChars == Letters \cup Digits \cup {"_"}

\* str.strip(chars)
Strip(s, chars) ==
    LET keep == {i \in 1..Len(s) : s[i] \notin chars}
    IN  IF keep = {} THEN <<>> ELSE SubSeq(s, Min(keep), Max(keep))

\* re.sub(r"\s+", " ", s)
CollapseWhitespace(s) ==
    LET first == SelectSeq(RangeIndex(Len(s)),
                     LAMBDA i : ~(s[i] \in Whitespace /\ i > 1 /\ s[i - 1] \in Whitespace))
    IN  [k \in 1..Len(first) |-> IF s[first[k]] \in Whitespace THEN " " ELSE s[first[k]]]

\* the length of the run of digits that ends s
TrailingDigits(s) ==
    Max({k \in 0..Len(s) : \A i \in (Len(s) - k + 1)..Len(s) : s[i] \in Digits})

\* \b before s[i], a word character
WordBoundaryBefore(s, i) == i = 1 \/ s[i - 1] \notin WordChars

\* the tables of at most n rows drawn from rows
Tables(rows, n) == UNION {[1..k -> rows] : k \in 0..n}

(***************************************************************************)
(* io_utils.py: remove_internal_transfers                                  *)
(***************************************************************************)
TRANSFER_KEYWORDS ==
    << <<"t", "r", "a", "n", "s", "f", "e", "r">>,
       <<"x", "f", "e", "r">>,
       <<"b", "e", "t", "w", "e", "e", "n", " ", "a", "c", "c", "o", "u", "n", "t", "s">>,
       <<"o", "n", "l", "i", "n", "e", " ", "b", "a", "n", "k", "i", "n", "g", " ", "t", "r", "a", "n", "s", "f", "e", "r">>,
       <<"c", "u", "s", "t", "o", "m", "e", "r", " ", "t", "r", "a", "n", "s", "f", "e", "r">>,
       <<"e", "t", "f", "r">> >>

INTERNAL_TRANSFER_DESCRIPTIONS ==
    { <<"c", "u", "s", "t", "o", "m", "e", "r", " ", "t", "r", "a", "n", "s", "f", "e", "r", " ", "c", "r", ".">>,
      <<"c", "u", "s", "t", "o", "m", "e", "r", " ", "t", "r", "a", "n", "s", "f", "e", "r", " ", "d", "r", ".">> }

DefaultToleranceDays == 2

_matches_transfer_keyword(text) ==
    LET lowered == Lower(text)
    IN  \E k \in 1..Len(TRANSFER_KEYWORDS) : Contains(lowered, TRANSFER_KEYWORDS[k])

\* Series.round(2) of an amount in thousandths: to the nearest cent, a half to even
Round2(v) ==
    LET q == v \div 10
        r == v % 10
    IN  IF r < 5 THEN 10 * q
        ELSE IF r > 5 THEN 10 * (q + 1)
        ELSE IF q % 2 = 0 THEN 10 * q ELSE 10 * (q + 1)

\* tuple(desc.lower() for desc in INTERNAL_TRANSFER_DESCRIPTIONS)
internal_lower == {Lower(desc) : desc \in INTERNAL_TRANSFER_DESCRIPTIONS}

mask_customer(row) == Lower(row.description) \in internal_lower

\* working, once the known self-transfer labels are dropped and the columns
\* transfer_flag and abs_amount are added; pair_index is the index label
working_row(df, i) ==
    [pair_index    |-> i,
     date          |-> df[i].date,
     amount        |-> df[i].amount,
     transfer_flag |-> _matches_transfer_keyword(df[i].description),
     abs_amount    |-> Round2(Abs(df[i].amount))]

working_frame(df) ==
    LET kept == SelectSeq(RangeIndex(Len(df)), LAMBDA i : ~mask_customer(df[i]))
    IN  [k \in 1..Len(kept) |-> working_row(df, kept[k])]

positives(working) == SelectSeq(working, LAMBDA w : w.amount > 0 /\ w.transfer_flag)

negatives(working) == SelectSeq(working, LAMBDA w : w.amount < 0 /\ w.transfer_flag)

RECURSIVE Flatten(_)
Flatten(ss) == IF ss = <<>> THEN <<>> ELSE Head(ss) \o Flatten(Tail(ss))

\* potential_pairs merged on the absolute amount as it is, not rounded
potential_pairs_unrounded(pos, neg) ==
    Flatten([k \in 1..Len(pos) |->
        LET matching == SelectSeq(neg, LAMBDA w : Abs(w.amount) = Abs(pos[k].amount))
        IN  [m \in 1..Len(matching) |->
                [pair_index_pos |-> pos[k].pair_index,
                 pair_index_neg |-> matching[m].pair_index,
                 date_diff      |-> Abs(pos[k].date - matching[m].date)]]])

\* positives.merge(negatives, on="abs_amount") with the column date_diff: the
\* rows of the inner join, in the order of the left keys
potential_pairs(pos, neg) ==
    Flatten([k \in 1..Len(pos) |->
        LET matching == SelectSeq(neg, LAMBDA w : w.abs_amount = pos[k].abs_amount)
        IN  [m \in 1..Len(matching) |->
                [pair_index_pos |-> pos[k].pair_index,
                 pair_index_neg |-> matching[m].pair_index,
                 date_diff      |-> Abs(pos[k].date - matching[m].date)]]])

\* within_tolerance with the filter on date_diff left out
within_tolerance_unfiltered(pairs, tolerance_days) == pairs

\* within_tolerance with < for <=
within_tolerance_strict(pairs, tolerance_days) ==
    SelectSeq(pairs, LAMBDA pr : pr.date_diff < tolerance_days)

\* potential_pairs[date_diff <= Timedelta(days=tolerance_days)]
within_tolerance(pairs, tolerance_days) ==
    SelectSeq(pairs, LAMBDA pr : pr.date_diff <= tolerance_days)

\* sort_values("date_diff"): the default sort is not stable, so rows of equal
\* date_diff may come out in any order
sort_values(pairs) ==
    LET n == Len(pairs)
    IN  {[k \in 1..n |-> pairs[f[k]]] : f \in
            {g \in [1..n -> 1..n] :
                /\ \A a, b \in 1..n : a # b => g[a] # g[b]
                /\ \A a, b \in 1..n :
                      a < b => pairs[g[a]].date_diff <= pairs[g[b]].date_diff}}

loop_start == [used_pos |-> {}, used_neg |-> {}, to_drop |-> {}, matched |-> <<>>]

loop_step(st, pos_idx, neg_idx) ==
    [used_pos |-> st.used_pos \cup {pos_idx},
     used_neg |-> st.used_neg \cup {neg_idx},
     to_drop  |-> st.to_drop \cup {pos_idx, neg_idx},
     matched  |-> Append(st.matched, <<pos_idx, neg_idx>>)]

\* pair_loop with the test on used_neg left out
RECURSIVE pair_loop_no_used_neg(_, _, _)
pair_loop_no_used_neg(pairs, k, st) ==
    IF k > Len(pairs) THEN st
    ELSE IF pairs[k].pair_index_pos \in st.used_pos
         THEN pair_loop_no_used_neg(pairs, k + 1, st)
         ELSE pair_loop_no_used_neg(pairs, k + 1,
                  loop_step(st, pairs[k].pair_index_pos, pairs[k].pair_index_neg))

\* pair_loop with the test on used_pos left out
RECURSIVE pair_loop_no_used_pos(_, _, _)
pair_loop_no_used_pos(pairs, k, st) ==
    IF k > Len(pairs) THEN st
    ELSE IF pairs[k].pair_index_neg \in st.used_neg
         THEN pair_loop_no_used_pos(pairs, k + 1, st)
         ELSE pair_loop_no_used_pos(pairs, k + 1,
                  loop_step(st, pairs[k].pair_index_pos, pairs[k].pair_index_neg))

\* the loop over potential_pairs.iterrows(), from row k on
RECURSIVE pair_loop(_, _, _)
pair_loop(pairs, k, st) ==
    IF k > Len(pairs) THEN st
    ELSE LET pos_idx == pairs[k].pair_index_pos
             neg_idx == pairs[k].pair_index_neg
         IN  IF pos_idx \in st.used_pos \/ neg_idx \in st.used_neg
             THEN pair_loop(pairs, k + 1, st)
             ELSE pair_loop(pairs, k + 1, loop_step(st, pos_idx, neg_idx))

\* drop_rows with to_drop taken as positions in working, not as index labels
drop_rows_by_position(df, working, to_drop) ==
    LET left == SelectSeq(RangeIndex(Len(working)), LAMBDA k : k \notin to_drop)
    IN  [k \in 1..Len(left) |-> df[working[left[k]].pair_index]]

\* working.drop(index=list(to_drop)), the helper columns dropped, the index reset
drop_rows(df, working, to_drop) ==
    LET left == SelectSeq(working, LAMBDA w : w.pair_index \notin to_drop)
    IN  [k \in 1..Len(left) |-> df[left[k].pair_index]]

\* the table returned when the loop ends in st, and the pairs it matched
loop_result(df, working, st) ==
    [out |-> drop_rows(df, working, st.to_drop), matched |-> st.matched]

\* the loop over the pairs in each order sort_values can give them
match_pairs(df, working, pairs, tolerance_days) ==
    IF pairs = <<>> THEN {loop_result(df, working, loop_start)}
    ELSE {loop_result(df, working, pair_loop(order, 1, loop_start)) :
             order \in sort_values(within_tolerance(pairs, tolerance_days))}

\* remove_internal_transfers from positives and negatives on
pair_transfers(df, working, pos, neg, tolerance_days) ==
    IF pos = <<>> \/ neg = <<>> THEN {loop_result(df, working, loop_start)}
    ELSE match_pairs(df, working, potential_pairs(pos, neg), tolerance_days)

\* remove_internal_transfers from working on
split_transfers(df, working, tolerance_days) ==
    pair_transfers(df, working, positives(working), negatives(working), tolerance_days)

\* the results remove_internal_transfers can return, one per order sort_values
\* can produce: the table, and the pairs the loop matched
remove_internal_transfers(df, tolerance_days) ==
    IF df = <<>> THEN {[out |-> df, matched |-> <<>>]}
    ELSE split_transfers(df, working_frame(df), tolerance_days)

\* the tables the transfer specification draws df from
Tolerances == {1, DefaultToleranceDays}

TransferDays == {0, 1, 2}

MkRow(date, description, amount) ==
    [date |-> date, description |-> description, amount |-> amount,
     account_name |-> <<"c", "h", "e", "q", "u", "i", "n", "g">>, balance |-> <<>>]

TransferRows ==
    {MkRow(d, t[1], t[2]) : d \in TransferDays,
        t \in { <<<<"S", "c", "o", "t", "i", "a", " ", "S", "a", "v", "i", "n", "g", "s", " ", "T", "r", "a", "n", "s", "f", "e", "r">>, 300004>>,
                <<<<"S", "c", "o", "t", "i", "a", " ", "S", "a", "v", "i", "n", "g", "s", " ", "T", "r", "a", "n", "s", "f", "e", "r">>, -300000>>,
                <<<<"S", "c", "o", "t", "i", "a", " ", "S", "a", "v", "i", "n", "g", "s", " ", "T", "r", "a", "n", "s", "f", "e", "r">>, -300006>>,
                <<<<"C", "u", "s", "t", "o", "m", "e", "r", " ", "T", "r", "a", "n", "s", "f", "e", "r", " ", "C", "r", ".">>, 300004>>,
                <<<<"T", "i", "m", " ", "H", "o", "r", "t", "o", "n", "s">>, -300000>> }}

TransfersInit ==
    /\ tr_pc = "start"
    /\ tr_df \in Tables(TransferRows, MaxRows)
    /\ tr_tol \in Tolerances
    /\ tr_out = <<>>
    /\ tr_matched = <<>>

RemoveInternalTransfers ==
    /\ tr_pc = "start"
    /\ \E res \in remove_internal_transfers(tr_df, tr_tol) :
          /\ tr_out' = res.out
          /\ tr_matched' = res.matched
    /\ tr_pc' = "done"
    /\ UNCHANGED <<tr_df, tr_tol, clVars, lkVars, rdVars, enVars, appVars>>

(***************************************************************************)
(* cleaning.py                                                             *)
(***************************************************************************)
\* p, or p - 1 where s[p] is one of chars: the index before an optional
\* character of a pattern that matches up to s[p]
before_optional(s, p, chars) == IF p >= 1 /\ s[p] \in chars THEN p - 1 ELSE p

\* start where s[start..end] is word, IGNORECASE, after a \b; 0 where not
word_at(s, word, start, end) ==
    IF /\ start >= 1
       /\ Lower(SubSeq(s, start, end)) = word
       /\ WordBoundaryBefore(s, start)
    THEN start ELSE 0

\* the index where <word>\.? must end for \.?\s?#?\d+$ (with_dot) or
\* \s?#?\d+$ to match the rest of s.  The digits are the whole run of
\* digits that ends s, and what stands before them decides each optional
\* part.
before_reference(s, with_dot) ==
    before_optional(s,
        before_optional(s,
            before_optional(s, Len(s) - TrailingDigits(s), {"#"}),
            Whitespace),
        IF with_dot THEN {"."} ELSE {})

\* the start of the match of \b<word>\.?\s?#?\d+$ (with_dot) or of
\* \b<word>\s?#?\d+$ in s, IGNORECASE; 0 when there is none
tail_reference_start(s, word, with_dot) ==
    IF TrailingDigits(s) >= 1
    THEN word_at(s, word, before_reference(s, with_dot) - Len(word) + 1,
                 before_reference(s, with_dot))
    ELSE 0

MinTrailingDigits == 4

\* the start of the match of \b\d{4,}$ in s; 0 when there is none
tail_digits_start(s) ==
    LET k == TrailingDigits(s)
        start == Len(s) - k + 1
    IN  IF k >= MinTrailingDigits /\ WordBoundaryBefore(s, start) THEN start ELSE 0

\* the start of the match of DESCRIPTION_TRAILING_PATTERNS[which] in s, or 0
DESCRIPTION_TRAILING_PATTERNS(which, s) ==
    CASE which = 1 -> tail_reference_start(s, <<"r", "e", "f">>, TRUE)
      [] which = 2 -> tail_reference_start(s, <<"t", "r", "a", "n", "s", "a", "c", "t", "i", "o", "n">>, FALSE)
      [] which = 3 -> tail_digits_start(s)

\* cleaned without the match that starts at start, stripped
cut_match(cleaned, start) ==
    Strip(IF start = 0 THEN cleaned ELSE SubSeq(cleaned, 1, start - 1), Whitespace)

\* re.sub(pattern, "", cleaned, flags=re.IGNORECASE).strip()
strip_pattern(which, cleaned) ==
    cut_match(cleaned, DESCRIPTION_TRAILING_PATTERNS(which, cleaned))

standardize_description(text) ==
    LET stripped  == Strip(text, Whitespace)
        collapsed == CollapseWhitespace(stripped)
        undotted  == Strip(collapsed, {".", " "})
    IN  strip_pattern(3, strip_pattern(2, strip_pattern(1, undotted)))

\* DataFrame.drop_duplicates(): the first of every group of identical rows
drop_duplicates(df) ==
    LET first == SelectSeq(RangeIndex(Len(df)),
                     LAMBDA i : \A j \in 1..(i - 1) : df[j] # df[i])
    IN  [k \in 1..Len(first) |-> df[first[k]]]

\* the civil date <<year, month, day>> of a day ordinal
civil_from_days(days) ==
    LET z   == days + 719468
        era == z \div 146097
        doe == z - era * 146097
        yoe == (doe - doe \div 1460 + doe \div 36524 - doe \div 146096) \div 365
        doy == doe - (365 * yoe + yoe \div 4 - yoe \div 100)
        mp  == (5 * doy + 2) \div 153
        d   == doy - (153 * mp + 2) \div 5 + 1
        m   == IF mp < 10 THEN mp + 3 ELSE mp - 9
        y   == yoe + era * 400 + (IF m <= 2 THEN 1 ELSE 0)
    IN  <<y, m, d>>

WEEKDAY_NAMES ==
    <<"Monday", "Tuesday", "Wednesday", "Thursday", "Friday", "Saturday", "Sunday">>

\* Series.dt.day_name(): day 0 (1970-01-01) is a Thursday
day_name(days) == WEEKDAY_NAMES[((days + 3) % 7) + 1]

\* the decimal digits of n, padded with zeros to width w
RECURSIVE ZeroPadded(_, _)
ZeroPadded(n, w) ==
    IF w = 0 THEN <<>> ELSE Append(ZeroPadded(n \div 10, w - 1), DigitChars[(n % 10) + 1])

\* "YYYY-MM" of a civil date
year_month(ymd) == ZeroPadded(ymd[1], 4) \o <<"-">> \o ZeroPadded(ymd[2], 2)

\* Series.dt.to_period("M").astype(str): "YYYY-MM"
month_of(days) == year_month(civil_from_days(days))

\* np.where(amount > 0, "Earnings", "Expenses") with >= for >
class_of_with_zero(amount) == IF amount >= 0 THEN "Earnings" ELSE "Expenses"

\* np.where(amount > 0, "Earnings", "Expenses")
class_of(amount) == IF amount > 0 THEN "Earnings" ELSE "Expenses"

\* one row of cleaned, after the column assignments.  date and amount come in
\* as datetime64 and float64, which to_datetime and to_numeric leave as they
\* are, and no row holds a null for dropna to drop.
clean_row(r) ==
    [date         |-> r.date,
     description  |-> standardize_description(r.description),
     amount       |-> r.amount,
     account_name |-> Lower(r.account_name),
     balance      |-> r.balance,
     class        |-> class_of(r.amount),
     weekday_name |-> day_name(r.date),
     month        |-> month_of(r.date)]

clean_transactions(df) ==
    IF df = <<>> THEN df
    ELSE LET cleaned == drop_duplicates(df)
         IN  [k \in 1..Len(cleaned) |-> clean_row(cleaned[k])]

\* the tables the cleaning specification draws df from
CleanDescriptions ==
    { <<"U", "b", "e", "r", " ", "T", "r", "i", "p", " ", "1", "2", "3", "4">>,
      <<"U", "b", "e", "r", " ", "T", "r", "i", "p">>,
      <<"U", "B", "E", "R", " ", "T", "R", "I", "P", " ", "R", "E", "F", "#", " ", "1", "2", "3", "4", "5">>,
      <<" ", " ", "T", "i", "m", " ", " ", " ", "H", "o", "r", "t", "o", "n", "s", ".", " ">>,
      <<"O", "r", "d", "e", "r", " ", "T", "R", "A", "N", "S", "A", "C", "T", "I", "O", "N", " ", "#", "9", "3", "2", "1">>,
      <<"I", "n", "v", "o", "i", "c", "e", " ", "2", "0", "2", "4", " ", "0", "0", "0", "1", "7">>,
      <<"S", "t", "o", "r", "e", " ", "n", "o", ".", " ", "4", "5", "2", "1">>,
      <<"r", "e", "f", " ", "1", "2", " ", "1", "2", "3", "4", "5", "6">>,
      <<"P", "r", "e", "f", " ", "1", "2">>,
      <<"C", "h", "e", "q", "u", "e", " ", "1", "2", "3">> }

CleanRows ==
    {[date |-> d, description |-> t, amount |-> a, account_name |-> n, balance |-> <<>>] :
        d \in {19724, 19727}, t \in CleanDescriptions, a \in {-18250, 0, 2800000},
        n \in {<<"C", "h", "e", "q", "u", "i", "n", "g">>, <<"c", "h", "e", "q", "u", "i", "n", "g">>}}

CleanInit ==
    /\ cl_pc = "start"
    /\ cl_df \in Tables(CleanRows, MaxCleanRows)
    /\ cl_once = <<>>
    /\ cl_twice = <<>>

Clean ==
    /\ cl_pc = "start"
    /\ cl_once' = clean_transactions(cl_df)
    /\ cl_pc' = "once"
    /\ UNCHANGED <<cl_df, cl_twice, trVars, lkVars, rdVars, enVars, appVars>>

CleanAgain ==
    /\ cl_pc = "once"
    /\ cl_twice' = clean_transactions(cl_once)
    /\ cl_pc' = "twice"
    /\ UNCHANGED <<cl_df, cl_once, trVars, lkVars, rdVars, enVars, appVars>>

(***************************************************************************)
(* classify.py                                                             *)
(***************************************************************************)
DEFAULT_MAPPING ==
    [Earnings |-> <<"Income", "General">>,
     Expenses |-> <<"Others", "Others">>]

DETERMINISTIC_KEYWORDS ==
    << <<<<"p", "a", "y", "r", "o", "l", "l">>, <<"Income", "Salary">>>>,
       <<<<"s", "a", "l", "a", "r", "y">>, <<"Income", "Salary">>>>,
       <<<<"d", "i", "r", "e", "c", "t", " ", "d", "e", "p", "o", "s", "i", "t">>, <<"Income", "Salary">>>>,
       <<<<"i", "n", "t", "e", "r", "e", "s", "t">>, <<"Income", "Interest">>>>,
       <<<<"d", "i", "v", "i", "d", "e", "n", "d">>, <<"Income", "Investments">>>>,
       <<<<"g", "s", "t", " ", "c", "r", "e", "d", "i", "t">>, <<"Income", "Government">>>>,
       <<<<"r", "e", "n", "t">>, <<"Housing", "Rent">>>>,
       <<<<"m", "o", "r", "t", "g", "a", "g", "e">>, <<"Housing", "Mortgage">>>>,
       <<<<"h", "y", "d", "r", "o">>, <<"Utilities", "Electricity">>>>,
       <<<<"e", "n", "b", "r", "i", "d", "g", "e">>, <<"Utilities", "Gas">>>>,
       <<<<"r", "o", "g", "e", "r", "s">>, <<"Utilities", "Telecom">>>>,
       <<<<"b", "e", "l", "l">>, <<"Utilities", "Telecom">>>>,
       <<<<"t", "e", "l", "u", "s">>, <<"Utilities", "Telecom">>>>,
       <<<<"s", "h", "a", "w">>, <<"Utilities", "Telecom">>>>,
       <<<<"i", "n", "t", "e", "r", "n", "e", "t">>, <<"Utilities", "Telecom">>>>,
       <<<<"i", "n", "s", "u", "r", "a", "n", "c", "e">>, <<"Insurance", "Premiums">>>>,
       <<<<"p", "r", "o", "p", "e", "r", "t", "y", " ", "t", "a", "x">>, <<"Housing", "Taxes">>>>,
       <<<<"s", "c", "o", "t", "i", "a", " ", "v", "i", "s", "a", " ", "p", "a", "y", "m", "e", "n", "t">>, <<"Transfers", "Credit Card Payment">>>>,
       <<<<"v", "i", "s", "a", " ", "p", "a", "y", "m", "e", "n", "t">>, <<"Transfers", "Credit Card Payment">>>>,
       <<<<"x", "f", "e", "r">>, <<"Transfers", "Internal Transfer">>>>,
       <<<<"t", "r", "a", "n", "s", "f", "e", "r">>, <<"Transfers", "Internal Transfer">>>>,
       <<<<"e", "t", "f", "r">>, <<"Transfers", "Internal Transfer">>>>,
       <<<<"u", "b", "e", "r">>, <<"Transport", "Ride Share">>>>,
       <<<<"l", "y", "f", "t">>, <<"Transport", "Ride Share">>>>,
       <<<<"s", "h", "e", "l", "l">>, <<"Transport", "Fuel">>>>,
       <<<<"e", "s", "s", "o">>, <<"Transport", "Fuel">>>>,
       <<<<"p", "e", "t", "r", "o">>, <<"Transport", "Fuel">>>>,
       <<<<"p", "e", "t", "r", "o", "-", "c", "a", "n", "a", "d", "a">>, <<"Transport", "Fuel">>>>,
       <<<<"c", "o", "s", "t", "c", "o">>, <<"Living", "Groceries">>>>,
       <<<<"l", "o", "b", "l", "a", "w", "s">>, <<"Living", "Groceries">>>>,
       <<<<"w", "a", "l", "m", "a", "r", "t">>, <<"Living", "Groceries">>>>,
       <<<<"s", "o", "b", "e", "y", "s">>, <<"Living", "Groceries">>>>,
       <<<<"n", "o", " ", "f", "r", "i", "l", "l", "s">>, <<"Living", "Groceries">>>>,
       <<<<"s", "h", "o", "p", "p", "e", "r", "s">>, <<"Health", "Pharmacy">>>>,
       <<<<"s", "t", "a", "r", "b", "u", "c", "k", "s">>, <<"Food & Drink", "Coffee">>>>,
       <<<<"t", "i", "m", " ", "h", "o", "r", "t", "o", "n", "s">>, <<"Food & Drink", "Coffee">>>>,
       <<<<"m", "c", "d", "o", "n", "a", "l", "d">>, <<"Food & Drink", "Fast Food">>>>,
       <<<<"n", "e", "t", "f", "l", "i", "x">>, <<"Entertainment", "Streaming">>>>,
       <<<<"s", "p", "o", "t", "i", "f", "y">>, <<"Entertainment", "Streaming">>>>,
       <<<<"c", "a", "n", "a", "d", "i", "a", "n", " ", "t", "i", "r", "e">>, <<"Living", "Home">>>>,
       <<<<"h", "o", "m", "e", " ", "d", "e", "p", "o", "t">>, <<"Living", "Home Improvement">>>>,
       <<<<"a", "m", "a", "z", "o", "n">>, <<"Shopping", "Online Retail">>>>,
       <<<<"a", "i", "r", "b", "n", "b">>, <<"Travel", "Accommodation">>>>,
       <<<<"u", "b", "e", "r", " ", "e", "a", "t", "s">>, <<"Food & Drink", "Delivery">>>> >>

FUZZY_TARGETS ==
    << <<<<"s", "t", "a", "r", "b", "u", "c", "k">>, <<"Food & Drink", "Coffee">>>>,
       <<<<"m", "c", "d", "o", "n", "a", "l", "d", "s">>, <<"Food & Drink", "Fast Food">>>>,
       <<<<"w", "e", "n", "d", "y", "s">>, <<"Food & Drink", "Fast Food">>>>,
       <<<<"s", "u", "b", "w", "a", "y">>, <<"Food & Drink", "Fast Food">>>>,
       <<<<"s", "h", "o", "p", "p", "e", "r", "s", " ", "d", "r", "u", "g", " ", "m", "a", "r", "t">>, <<"Health", "Pharmacy">>>>,
       <<<<"i", "k", "e", "a">>, <<"Living", "Home">>>>,
       <<<<"c", "a", "n", "a", "d", "i", "a", "n", " ", "t", "i", "r", "e">>, <<"Living", "Home">>>>,
       <<<<"c", "o", "s", "t", "c", "o", " ", "w", "h", "o", "l", "e", "s", "a", "l", "e">>, <<"Living", "Groceries">>>>,
       <<<<"l", "o", "n", "g", "o", "s">>, <<"Living", "Groceries">>>>,
       <<<<"f", "r", "e", "s", "h", "c", "o">>, <<"Living", "Groceries">>>>,
       <<<<"n", "o", " ", "f", "r", "i", "l", "l", "s">>, <<"Living", "Groceries">>>>,
       <<<<"u", "b", "e", "r", " ", "t", "r", "i", "p">>, <<"Transport", "Ride Share">>>>,
       <<<<"u", "b", "e", "r", " ", "e", "a", "t", "s">>, <<"Food & Drink", "Delivery">>>> >>

API_TIMEOUT == 3

\* the cutoffs of fuzzy_lookup, in hundredths
TokenCutoff == 92
WholeCutoff == 80

\* no mapping (None)
None == <<>>

normalize(text) == Strip(CollapseWhitespace(Lower(text)), Whitespace)

\* deterministic_lookup taking the last keyword of the table that matches
RECURSIVE deterministic_lookup_last(_, _)
deterministic_lookup_last(description, k) ==
    IF k > Len(DETERMINISTIC_KEYWORDS) THEN None
    ELSE LET later == deterministic_lookup_last(description, k + 1)
         IN  IF later # None THEN later
             ELSE IF Contains(description, DETERMINISTIC_KEYWORDS[k][1])
                  THEN DETERMINISTIC_KEYWORDS[k][2]
                  ELSE None

\* the loop of deterministic_lookup over DETERMINISTIC_KEYWORDS.items(), from
\* entry k on
RECURSIVE deterministic_lookup_from(_, _)
deterministic_lookup_from(description, k) ==
    IF k > Len(DETERMINISTIC_KEYWORDS) THEN None
    ELSE IF Contains(description, DETERMINISTIC_KEYWORDS[k][1])
         THEN DETERMINISTIC_KEYWORDS[k][2]
         ELSE deterministic_lookup_from(description, k + 1)

deterministic_lookup(description) == deterministic_lookup_from(description, 1)

\* re.split(r"[^\w&]+", description), the empty tokens left out: the maximal
\* runs of word characters and "&"
tokens_of(description) ==
    LET tok(i) == description[i] \in WordChars \cup {"&"}
        starts == SelectSeq(RangeIndex(Len(description)),
                      LAMBDA i : tok(i) /\ (i = 1 \/ ~tok(i - 1)))
        stop(i) == Min({j \in i..Len(description) :
                          j = Len(description) \/ ~tok(j + 1)})
    IN  [k \in 1..Len(starts) |-> SubSeq(description, starts[k], stop(starts[k]))]

\* difflib.SequenceMatcher: the length of the common run of a from i and of b
\* from j (0-based), inside a[:ahi] and b[:bhi]
RECURSIVE run_length(_, _, _, _, _, _)
run_length(a, b, i, j, ahi, bhi) ==
    IF i < ahi /\ j < bhi /\ a[i + 1] = b[j + 1]
    THEN 1 + run_length(a, b, i + 1, j + 1, ahi, bhi)
    ELSE 0

\* SequenceMatcher.find_longest_match without junk: <<i, j, k>>, the longest
\* block a[i:i+k] = b[j:j+k], the earliest in a and then the earliest in b
find_longest_match(a, b, alo, ahi, blo, bhi) ==
    LET len == [i \in alo..(ahi - 1), j \in blo..(bhi - 1) |->
                    run_length(a, b, i, j, ahi, bhi)]
        best  == Max({len[i, j] : i \in alo..(ahi - 1), j \in blo..(bhi - 1)})
        besti == Min({i \in alo..(ahi - 1) : \E j \in blo..(bhi - 1) : len[i, j] = best})
        bestj == Min({j \in blo..(bhi - 1) : len[besti, j] = best})
    IN  IF best = 0 THEN <<alo, blo, 0>> ELSE <<besti, bestj, best>>

\* the total size of SequenceMatcher.get_matching_blocks() inside the window
RECURSIVE matching_size(_, _, _, _, _, _)

\* the size of the block m and of the blocks to its left and to its right
block_size(a, b, alo, ahi, blo, bhi, m) ==
    IF m[3] = 0 THEN 0
    ELSE m[3] + matching_size(a, b, alo, m[1], blo, m[2])
              + matching_size(a, b, m[1] + m[3], ahi, m[2] + m[3], bhi)

matching_size(a, b, alo, ahi, blo, bhi) ==
    IF alo >= ahi \/ blo >= bhi THEN 0
    ELSE block_size(a, b, alo, ahi, blo, bhi,
                    find_longest_match(a, b, alo, ahi, blo, bhi))

\* SequenceMatcher(a=x, b=word).ratio() as the fraction <<2 * matches, total>>
ratio(x, word) ==
    <<2 * matching_size(x, word, 0, Len(x), 0, Len(word)), Len(x) + Len(word)>>

\* SequenceMatcher.real_quick_ratio(): the bound on ratio() from the lengths
real_quick_ratio(x, word) ==
    <<2 * (IF Len(x) < Len(word) THEN Len(x) ELSE Len(word)), Len(x) + Len(word)>>

\* the number of times c is in s
Count(s, c) == Cardinality({i \in 1..Len(s) : s[i] = c})

RECURSIVE SumOver(_, _)
SumOver(f, S) ==
    IF S = {} THEN 0
    ELSE LET c == CHOOSE c \in S : TRUE IN f[c] + SumOver(f, S \ {c})

\* SequenceMatcher.quick_ratio(): the bound on ratio() from the characters
\* the two have in common, counted with their multiplicity
quick_ratio(x, word) ==
    LET chars == {word[i] : i \in 1..Len(word)}
        common == [c \in chars |-> IF Count(x, c) < Count(word, c)
                                   THEN Count(x, c) ELSE Count(word, c)]
    IN  <<2 * SumOver(common, chars), Len(x) + Len(word)>>

\* r >= cutoff, for a ratio r and a cutoff in hundredths
at_least(r, cutoff) == IF r[2] = 0 THEN TRUE ELSE 100 * r[1] >= cutoff * r[2]

\* the code points of the characters of the fuzzy targets, in order
CodeOrder == <<" ", "a", "b", "c", "d", "e", "f", "g", "h", "i", "j", "k", "l", "m", "n", "o", "p", "q", "r", "s", "t", "u", "v", "w", "x", "y", "z">>

CodePoint(c) == CHOOSE k \in 1..Len(CodeOrder) : CodeOrder[k] = c

\* x > y for str
StrGreater(x, y) ==
    \/ \E i \in 1..Len(y) :
          /\ i <= Len(x)
          /\ SubSeq(x, 1, i - 1) = SubSeq(y, 1, i - 1)
          /\ CodePoint(x[i]) > CodePoint(y[i])
    \/ Len(x) > Len(y) /\ SubSeq(x, 1, Len(y)) = y

\* (score[c], candidate c) > (score[d], candidate d)
greater(score, c, d) ==
    \/ score[c][1] * score[d][2] > score[d][1] * score[c][2]
    \/ /\ score[c][1] * score[d][2] = score[d][1] * score[c][2]
       /\ StrGreater(FUZZY_TARGETS[c][1], FUZZY_TARGETS[d][1])

\* heapq.nlargest(1, result): the greatest of result, or 0
nlargest(score, result) ==
    IF result = {} THEN 0
    ELSE CHOOSE c \in result : \A d \in result \ {c} : greater(score, c, d)

\* the candidates that pass real_quick_ratio, quick_ratio and ratio
close_candidates(word, cutoff, score) ==
    {c \in 1..Len(FUZZY_TARGETS) :
        /\ at_least(real_quick_ratio(FUZZY_TARGETS[c][1], word), cutoff)
        /\ at_least(quick_ratio(FUZZY_TARGETS[c][1], word), cutoff)
        /\ at_least(score[c], cutoff)}

\* get_close_matches where score[c] is the ratio of candidate c
best_match(word, cutoff, score) ==
    nlargest(score, close_candidates(word, cutoff, score))

\* difflib.get_close_matches(word, candidates, n=1, cutoff): the index in
\* FUZZY_TARGETS of the greatest (ratio, candidate) with ratio >= cutoff, or 0
get_close_matches(word, cutoff) ==
    best_match(word, cutoff,
               [c \in 1..Len(FUZZY_TARGETS) |-> ratio(FUZZY_TARGETS[c][1], word)])

\* the loop of fuzzy_lookup over tokens, from token k on, then the whole
\* description
RECURSIVE fuzzy_lookup_from(_, _, _)

\* FUZZY_TARGETS[matches[0]] if matches, else what the code goes on to
fuzzy_match(matches, otherwise) ==
    IF matches # 0 THEN FUZZY_TARGETS[matches][2] ELSE otherwise

fuzzy_lookup_from(description, tokens, k) ==
    IF k > Len(tokens)
    THEN fuzzy_match(get_close_matches(description, WholeCutoff), None)
    ELSE fuzzy_match(get_close_matches(tokens[k], TokenCutoff),
                     fuzzy_lookup_from(description, tokens, k + 1))

fuzzy_lookup(description) == fuzzy_lookup_from(description, tokens_of(description), 1)

\* the descriptions the lookup specification draws from: every keyword, every
\* two keywords in either order, and some that hold none
LookupDescriptions ==
    {DETERMINISTIC_KEYWORDS[k][1] : k \in 1..Len(DETERMINISTIC_KEYWORDS)}
    \cup {DETERMINISTIC_KEYWORDS[j][1] \o <<" ">> \o DETERMINISTIC_KEYWORDS[k][1] :
            j, k \in 1..Len(DETERMINISTIC_KEYWORDS)}
    \cup { <<"R", "e", "n", "t", " ", " ", "T", "R", "A", "N", "S", "F", "E", "R">>, <<"S", "i", "d", "e", " ", "G", "i", "g", " ", "P", "a", "y", "m", "e", "n", "t">>, <<"W", "e", "n", "d", "y", "s", " ", "#", "1", "2">>, <<>> }

LookupInit ==
    /\ lk_pc = "start"
    /\ lk_desc \in LookupDescriptions
    /\ lk_result = None

Lookup ==
    /\ lk_pc = "start"
    /\ lk_result' = deterministic_lookup(normalize(lk_desc))
    /\ lk_pc' = "done"
    /\ UNCHANGED <<lk_desc, trVars, clVars, rdVars, enVars, appVars>>

(***************************************************************************)
(* classify.py: _call_enrichment_api and classify_transactions.            *)
(* A Python value that a label can be is a record [type, value]: the name  *)
(* of its type and its repr as a string.  A mapping is None or a pair of   *)
(* such values.                                                            *)
(***************************************************************************)
LRU_MAXSIZE == 128

PyStr(s) == [type |-> "str", value |-> s]

PyNone == [type |-> "NoneType", value |-> "None"]

PyInt(s) == [type |-> "int", value |-> s]

PyFloat(s) == [type |-> "float", value |-> s]

\* bool(v)
Truthy(v) ==
    CASE v.type = "NoneType" -> FALSE
      [] v.type = "str"      -> v.value # ""
      [] v.type = "int"      -> v.value # "0"
      [] v.type = "float"    -> v.value \notin {"0.0", "-0.0"}
      [] OTHER               -> TRUE

\* pd.isna(v)
IsNull(v) == v.type = "NoneType" \/ (v.type = "float" /\ v.value = "nan")

\* a mapping of the local tables as a pair of Python values
PyMapping(mapping) == <<PyStr(mapping[1]), PyStr(mapping[2])>>

\* the classes an exception is an instance of
EXCEPTION_BASES ==
    [HTTPError            |-> {"HTTPError", "URLError", "OSError", "Exception"},
     URLError             |-> {"URLError", "OSError", "Exception"},
     TimeoutError         |-> {"TimeoutError", "OSError", "Exception"},
     ConnectionResetError |-> {"ConnectionResetError", "ConnectionError", "OSError", "Exception"},
     IncompleteRead       |-> {"IncompleteRead", "HTTPException", "Exception"},
     JSONDecodeError      |-> {"JSONDecodeError", "ValueError", "Exception"},
     UnicodeDecodeError   |-> {"UnicodeDecodeError", "UnicodeError", "ValueError", "Exception"},
     AttributeError       |-> {"AttributeError", "Exception"}]

\* except (error.URLError, ValueError, TimeoutError)
Caught(exception) ==
    EXCEPTION_BASES[exception] \cap {"URLError", "ValueError", "TimeoutError"} # {}

\* What the service does with one request.
\*   urlopen  : "ok", or the exception request.urlopen raises (it raises
\*              HTTPError for a status of 400 or more)
\*   status   : response.status
\*   read     : "ok", or the exception response.read().decode("utf-8") raises
\*   json     : the type of json.loads(body), or "JSONDecodeError"
\*   category, sub_category : data.get(key) where the body is an object
Reply(name, urlopen, status, read, json, category, sub_category) ==
    [name |-> name, urlopen |-> urlopen, status |-> status, read |-> read,
     json |-> json, category |-> category, sub_category |-> sub_category]

REPLIES ==
    << Reply("http 500", "HTTPError", 500, "ok", "dict", PyNone, PyNone),
       Reply("connection refused", "URLError", 0, "ok", "dict", PyNone, PyNone),
       Reply("timeout", "TimeoutError", 0, "ok", "dict", PyNone, PyNone),
       Reply("reset while reading", "ok", 200, "ConnectionResetError", "dict", PyNone, PyNone),
       Reply("incomplete read", "ok", 200, "IncompleteRead", "dict", PyNone, PyNone),
       Reply("not utf-8", "ok", 200, "UnicodeDecodeError", "dict", PyNone, PyNone),
       Reply("not json", "ok", 200, "ok", "JSONDecodeError", PyNone, PyNone),
       Reply("json array", "ok", 200, "ok", "list", PyNone, PyNone),
       Reply("json null", "ok", 200, "ok", "NoneType", PyNone, PyNone),
       Reply("both labels", "ok", 200, "ok", "dict", PyStr("Dining"), PyStr("Takeout")),
       Reply("category only", "ok", 200, "ok", "dict", PyStr("Dining"), PyNone),
       Reply("empty labels", "ok", 200, "ok", "dict", PyStr(""), PyStr("")),
       Reply("no category", "ok", 200, "ok", "dict", PyNone, PyStr("Takeout")),
       Reply("number category", "ok", 200, "ok", "dict", PyInt("7"), PyStr("Takeout")),
       Reply("nan category", "ok", 200, "ok", "dict", PyFloat("nan"), PyStr("Takeout")) >>

\* not API_URL or not API_KEY, for a setting that is None or a string
Unset(setting) == setting = None \/ setting[1] = ""

\* the with statement of _call_enrichment_api: the exception it raises
\* ("none" if none) and the value it returns
enrichment_request(reply) ==
    IF reply.urlopen # "ok" THEN [raised |-> reply.urlopen, value |-> None]
    ELSE IF reply.status >= 400 THEN [raised |-> "none", value |-> None]
    ELSE IF reply.read # "ok" THEN [raised |-> reply.read, value |-> None]
    ELSE IF reply.json = "JSONDecodeError" THEN [raised |-> "JSONDecodeError", value |-> None]
    ELSE IF reply.json # "dict" THEN [raised |-> "AttributeError", value |-> None]
    ELSE IF Truthy(reply.category) /\ Truthy(reply.sub_category)
         THEN [raised |-> "none", value |-> <<reply.category, reply.sub_category>>]
    ELSE IF Truthy(reply.category)
         THEN [raised |-> "none", value |-> <<reply.category, PyStr("Others")>>]
    ELSE [raised |-> "none", value |-> None]

\* the body of _call_enrichment_api, where the service answers with reply:
\* the exception that leaves it, the value it returns and the request it has
\* sent (none, or the name of the reply to it)
_call_enrichment_api(url, key, reply) ==
    IF Unset(url) \/ Unset(key)
    THEN [raised |-> "none", value |-> None, sent |-> <<>>]
    ELSE LET attempt == enrichment_request(reply)
         IN  IF attempt.raised # "none" /\ Caught(attempt.raised)
             THEN [raised |-> "none", value |-> None, sent |-> <<reply.name>>]
             ELSE [raised |-> attempt.raised, value |-> attempt.value,
                   sent |-> <<reply.name>>]

\* the replies the service can give to a request for description, as indices
\* of REPLIES
answers(description) ==
    IF service = None THEN 1..Len(REPLIES) ELSE {service[description]}

\* the position of description in the cache, or 0
cache_index(cache, description) ==
    FirstIndex(Len(cache), LAMBDA i : cache[i].key = description)

\* the cache without its k-th entry
cache_without(cache, k) ==
    [i \in 1..(Len(cache) - 1) |-> IF i < k THEN cache[i] ELSE cache[i + 1]]

\* cached_call with an entry of None stored where the call raises
cached_call_errors_stored(cache, url, key, description) ==
    LET hit == cache_index(cache, description)
        stored(call) ==
            LET added == Append(cache, [key |-> description, value |-> call.value])
            IN  IF call.raised # "none"
                THEN [raised |-> call.raised, value |-> None, sent |-> call.sent,
                      cache |-> Append(cache, [key |-> description, value |-> None])]
                ELSE [raised |-> "none", value |-> call.value, sent |-> call.sent,
                      cache |-> IF Len(added) > LRU_MAXSIZE THEN Tail(added) ELSE added]
    IN  IF hit # 0
        THEN {[raised |-> "none", value |-> cache[hit].value, sent |-> <<>>,
               cache |-> Append(cache_without(cache, hit), cache[hit])]}
        ELSE {stored(_call_enrichment_api(url, key, REPLIES[r])) : r \in answers(description)}

\* @lru_cache(maxsize=128) around _call_enrichment_api: the entries are in
\* the order of their last use; a value that is returned is stored, None
\* too, an exception is not.  The result is the set of the outcomes of the
\* call, one for each reply the service can give if it is asked.
cached_call(cache, url, key, description) ==
    LET hit == cache_index(cache, description)
        stored(call) ==
            LET added == Append(cache, [key |-> description, value |-> call.value])
            IN  IF call.raised # "none"
                THEN [raised |-> call.raised, value |-> None, sent |-> call.sent,
                      cache |-> cache]
                ELSE [raised |-> "none", value |-> call.value, sent |-> call.sent,
                      cache |-> IF Len(added) > LRU_MAXSIZE THEN Tail(added) ELSE added]
    IN  IF hit # 0
        THEN {[raised |-> "none", value |-> cache[hit].value, sent |-> <<>>,
               cache |-> Append(cache_without(cache, hit), cache[hit])]}
        ELSE {stored(_call_enrichment_api(url, key, REPLIES[r])) : r \in answers(description)}

\* mapping, or otherwise if mapping is None
first_mapping(mapping, otherwise) == IF mapping # None THEN mapping ELSE otherwise

\* the local lookups of one row with the fuzzy lookup tried first
local_lookup_fuzzy_first(normalized_description) ==
    first_mapping(fuzzy_lookup(normalized_description),
                  deterministic_lookup(normalized_description))

\* the local lookups of one row
local_lookup(normalized_description) ==
    first_mapping(deterministic_lookup(normalized_description),
                  fuzzy_lookup(normalized_description))

\* DEFAULT_MAPPING.get(row_class, DEFAULT_MAPPING["Expenses"])
fallback(row_class) ==
    IF row_class \in DOMAIN DEFAULT_MAPPING
    THEN DEFAULT_MAPPING[row_class] ELSE DEFAULT_MAPPING["Expenses"]

\* The state of the loop of classify_transactions is a record st: the lists
\* categories and sub_categories (as one list of mappings), the cache, the
\* requests sent and the exception raised.

\* st with mapping appended to categories and sub_categories
resolved(st, mapping) == [st EXCEPT !.mappings = Append(@, mapping)]

\* st with the request of call, if it has sent one
requested(st, normalized_description, call) ==
    IF call.sent = <<>> THEN st
    ELSE [st EXCEPT !.requests = Append(@, [description |-> normalized_description,
                                           reply |-> call.sent[1]])]

\* st after _call_enrichment_api(normalized_description) has gone as call
after_call(row, st, normalized_description, call) ==
    IF call.raised # "none"
    THEN [requested(st, normalized_description, call) EXCEPT
             !.cache = call.cache, !.raised = call.raised]
    ELSE [requested(st, normalized_description, call) EXCEPT
             !.cache = call.cache,
             !.mappings = Append(@, IF call.value # None THEN call.value
                                    ELSE PyMapping(fallback(row.class)))]

\* the pass from the local lookups on, which have given mapping
enrich_or_default(row, use_api, url, key, st, normalized_description, mapping) ==
    IF mapping # None THEN {resolved(st, PyMapping(mapping))}
    ELSE IF ~use_api THEN {resolved(st, PyMapping(fallback(row.class)))}
    ELSE {after_call(row, st, normalized_description, call) :
             call \in cached_call(st.cache, url, key, normalized_description)}

\* the pass from normalize on
lookup_row(row, use_api, url, key, st, normalized_description) ==
    enrich_or_default(row, use_api, url, key, st, normalized_description,
                      local_lookup(normalized_description))

\* One pass of the loop of classify_transactions over a row, from the state
\* st of the loop.  The result is the set of states the pass can end in, one
\* for each reply the service can give.
classify_row(row, use_api, url, key, st) ==
    lookup_row(row, use_api, url, key, st, normalize(row.description))

\* the loop of classify_transactions from row k on
RECURSIVE classify_loop(_, _, _, _, _, _)
classify_loop(classified, use_api, url, key, k, st) ==
    IF k > Len(classified) \/ st.raised # "none" THEN {st}
    ELSE UNION {classify_loop(classified, use_api, url, key, k + 1, next) :
                    next \in classify_row(classified[k], use_api, url, key, st)}

\* What classify_transactions does with df where the cache of
\* _call_enrichment_api is cache: the outcomes it can have, each with the
\* exception raised ("none" if none), the frame returned, the cache it
\* leaves and the requests it sent.
classify_transactions(df, use_api, url, key, cache) ==
    IF df = <<>>
    THEN {[raised |-> "none", frame |-> df, cache |-> cache, requests |-> <<>>]}
    ELSE LET classified ==
                 [k \in 1..Len(df) |->
                     IF "class" \in DOMAIN df[k] THEN df[k]
                     ELSE [f \in DOMAIN df[k] \cup {"class"} |->
                              IF f = "class" THEN class_of(df[k].amount) ELSE df[k][f]]]
             start == [mappings |-> <<>>, cache |-> cache, requests |-> <<>>,
                       raised |-> "none"]
         IN  {[raised   |-> end.raised,
               frame    |-> IF end.raised # "none" THEN <<>>
                            ELSE [k \in 1..Len(classified) |->
                                    [f \in DOMAIN classified[k] \cup {"category", "sub_category"} |->
                                        IF f = "category" THEN end.mappings[k][1]
                                        ELSE IF f = "sub_category" THEN end.mappings[k][2]
                                        ELSE classified[k][f]]],
               cache    |-> end.cache,
               requests |-> end.requests] :
                 end \in classify_loop(classified, use_api, url, key, 1, start)}

(***************************************************************************)
(* io_utils.py: read_scotiabank_csv and load_and_normalize_files.          *)
(* A file is its decoded text.  The texts of the model are comma separated *)
(* (the delimiter the sniffer finds for them), hold no quoted field, write *)
(* a date as YYYY-MM-DD or as something that is no date at all, and write  *)
(* a number with a sign, digits and at most three decimals.                *)
(***************************************************************************)
CANONICAL_COLUMNS ==
    << <<"d", "a", "t", "e">>, <<"d", "e", "s", "c", "r", "i", "p", "t", "i", "o", "n">>, <<"a", "m", "o", "u", "n", "t">>, <<"a", "c", "c", "o", "u", "n", "t", "_", "n", "a", "m", "e">>, <<"b", "a", "l", "a", "n", "c", "e">> >>

DATE_CANDIDATES ==
    << <<"d", "a", "t", "e">>, <<"t", "r", "a", "n", "s", "a", "c", "t", "i", "o", "n", " ", "d", "a", "t", "e">>, <<"p", "o", "s", "t", "i", "n", "g", " ", "d", "a", "t", "e">>, <<"p", "o", "s", "t", "e", "d", " ", "d", "a", "t", "e">>,
       <<"d", "a", "t", "e", " ", "p", "o", "s", "t", "e", "d">>, <<"d", "a", "t", "e", "/", "t", "i", "m", "e">> >>

DESCRIPTION_CANDIDATES ==
    << <<"d", "e", "s", "c", "r", "i", "p", "t", "i", "o", "n">>, <<"t", "r", "a", "n", "s", "a", "c", "t", "i", "o", "n", " ", "d", "e", "t", "a", "i", "l", "s">>, <<"d", "e", "t", "a", "i", "l", "s">>, <<"m", "e", "m", "o">>,
       <<"n", "a", "r", "r", "a", "t", "i", "v", "e">>, <<"d", "e", "s", "c", "r", "i", "p", "t", "i", "o", "n", " ", "1">> >>

AMOUNT_CANDIDATES ==
    << <<"a", "m", "o", "u", "n", "t">>, <<"t", "r", "a", "n", "s", "a", "c", "t", "i", "o", "n", " ", "a", "m", "o", "u", "n", "t">>, <<"c", "a", "d", "$">>,
       <<"a", "m", "o", "u", "n", "t", " ", "(", "$", ")">>,
       <<"a", "m", "o", "u", "n", "t", " ", "(", "c", "a", "d", ")">>, <<"c", "a", "d", " ", "a", "m", "o", "u", "n", "t">> >>

DEBIT_CANDIDATES == << <<"d", "e", "b", "i", "t">>, <<"w", "i", "t", "h", "d", "r", "a", "w", "a", "l">>, <<"w", "i", "t", "h", "d", "r", "a", "w", "a", "l", "s">>, <<"d", "e", "b", "i", "t", "o">> >>

CREDIT_CANDIDATES == << <<"c", "r", "e", "d", "i", "t">>, <<"d", "e", "p", "o", "s", "i", "t">>, <<"d", "e", "p", "o", "s", "i", "t", "s">>, <<"c", "r", "e", "d", "i", "t", "o">> >>

BALANCE_CANDIDATES ==
    << <<"b", "a", "l", "a", "n", "c", "e">>, <<"a", "c", "c", "o", "u", "n", "t", " ", "b", "a", "l", "a", "n", "c", "e">>, <<"r", "u", "n", "n", "i", "n", "g", " ", "b", "a", "l", "a", "n", "c", "e">>, <<"a", "v", "a", "i", "l", "a", "b", "l", "e", " ", "b", "a", "l", "a", "n", "c", "e">> >>

ACCOUNT_CANDIDATES ==
    << <<"a", "c", "c", "o", "u", "n", "t">>, <<"a", "c", "c", "o", "u", "n", "t", " ", "n", "a", "m", "e">>, <<"a", "c", "c", "o", "u", "n", "t", " ", "t", "y", "p", "e">>, <<"p", "r", "o", "d", "u", "c", "t">> >>

\* a missing cell: NaN, NaT, pd.NA
NaN == <<>>

\* the cell texts pd.read_csv reads as NaN
NA_VALUES ==
    { <<>>, <<"#", "N", "/", "A">>, <<"#", "N", "/", "A", " ", "N", "/", "A">>, <<"#", "N", "A">>, <<"-", "1", ".", "#", "I", "N", "D">>, <<"-", "1", ".", "#", "Q", "N", "A", "N">>, <<"-", "N", "a", "N">>,
      <<"-", "n", "a", "n">>, <<"1", ".", "#", "I", "N", "D">>, <<"1", ".", "#", "Q", "N", "A", "N">>, <<"<", "N", "A", ">">>, <<"N", "/", "A">>, <<"N", "A">>, <<"N", "U", "L", "L">>,
      <<"N", "a", "N">>, <<"N", "o", "n", "e">>, <<"n", "/", "a">>, <<"n", "a", "n">>, <<"n", "u", "l", "l">> }

\* str.split(sep) for a one-character sep
Split(s, sep) ==
    LET at == SelectSeq(RangeIndex(Len(s)), LAMBDA i : s[i] = sep)
        n  == Len(at)
    IN  [k \in 1..(n + 1) |->
            SubSeq(s, IF k = 1 THEN 1 ELSE at[k - 1] + 1,
                      IF k = n + 1 THEN Len(s) ELSE at[k] - 1)]

\* str.endswith
EndsWith(s, suffix) ==
    Len(suffix) <= Len(s) /\ SubSeq(s, Len(s) - Len(suffix) + 1, Len(s)) = suffix

\* str.replace(old, "") for a set of one-character olds
Remove(s, chars) == SelectSeq(s, LAMBDA c : c \notin chars)

\* pd.read_csv(csv_buffer, delimiter=delimiter, dtype=str).dropna(how="all"):
\* blank lines are skipped, a short line is padded with NaN, a row whose
\* cells are all NaN is dropped
read_csv(decoded, delimiter) ==
    LET lines   == SelectSeq(Split(decoded, "\n"), LAMBDA l : l # <<>>)
        columns == Split(lines[1], delimiter)
        cell(fields, c) ==
            IF c > Len(fields) \/ fields[c] \in NA_VALUES THEN NaN ELSE <<fields[c]>>
        rows    == [k \in 1..(Len(lines) - 1) |->
                       LET fields == Split(lines[k + 1], delimiter)
                       IN  [c \in 1..Len(columns) |-> cell(fields, c)]]
    IN  [columns |-> columns,
         rows    |-> SelectSeq(rows, LAMBDA r : \E c \in 1..Len(r) : r[c] # NaN)]

_normalize_columns(columns) ==
    [c \in 1..Len(columns) |->
        CollapseWhitespace(Lower(Strip(columns[c], Whitespace)))]

\* the name of the matching column, or None
_find_first_match(columns, candidates) ==
    LET exact == FirstIndex(Len(candidates),
                     LAMBDA k : \E c \in 1..Len(columns) : columns[c] = candidates[k])
        tail  == FirstIndex(Len(candidates),
                     LAMBDA k : \E c \in 1..Len(columns) : EndsWith(columns[c], candidates[k]))
    IN  IF exact # 0 THEN <<candidates[exact]>>
        ELSE IF tail # 0
             THEN <<columns[FirstIndex(Len(columns),
                        LAMBDA c : EndsWith(columns[c], candidates[tail]))]>>
             ELSE None

\* df[name]: the cells of the first column of that name
Column(df, name) ==
    LET c == FirstIndex(Len(df.columns), LAMBDA i : df.columns[i] = name)
    IN  [k \in 1..Len(df.rows) |-> df.rows[k][c]]

infer_account_name(file_name, account_column) ==
    LET present == IF account_column = None THEN <<>>
                   ELSE SelectSeq(account_column[1], LAMBDA v : v # NaN)
        value   == IF present = <<>> THEN <<>> ELSE Strip(present[1][1], Whitespace)
        lowered == IF file_name = None THEN <<>> ELSE Lower(file_name[1])
    IN  IF value # <<>> THEN Lower(value)
        ELSE IF lowered = <<>> THEN <<"c", "h", "e", "q", "u", "i", "n", "g">>
        ELSE IF Contains(lowered, <<"s", "a", "v">>) THEN <<"s", "a", "v", "i", "n", "g", "s">>
        ELSE IF \/ Contains(lowered, <<"v", "i", "s", "a">>)
                \/ Contains(lowered, <<"c", "r", "e", "d", "i", "t">>)
                \/ Contains(lowered, <<"c", "a", "r", "d">>) THEN <<"c", "r", "e", "d", "i", "t", " ", "c", "a", "r", "d">>
        ELSE IF Contains(lowered, <<"t", "f", "s", "a">>) THEN <<"t", "f", "s", "a">>
        ELSE <<"c", "h", "e", "q", "u", "i", "n", "g">>

\* the texts of the model hold no non-breaking space and no control
\* character other than white space, which the regular expression replaces
_clean_string(value) ==
    IF value = NaN THEN <<>>
    ELSE Strip(CollapseWhitespace(Strip(value[1], Whitespace)), Whitespace)

DigitValue(c) == CHOOSE v \in 0..9 : DigitChars[v + 1] = c

RECURSIVE ParseInt(_)
ParseInt(digits) ==
    IF digits = <<>> THEN 0
    ELSE 10 * ParseInt(SubSeq(digits, 1, Len(digits) - 1)) + DigitValue(digits[Len(digits)])

\* float of <whole>.<frac> in thousandths, or NaN where it raises ValueError
parse_decimal(whole, frac) ==
    IF /\ \A i \in 1..Len(whole) : whole[i] \in Digits
       /\ \A i \in 1..Len(frac) : frac[i] \in Digits
       /\ Len(whole) + Len(frac) > 0
    THEN <<ParseInt(whole \o SubSeq(frac \o <<"0", "0", "0">>, 1, 3))>>
    ELSE NaN

\* float of a text without sign, split at "."
parse_parts(parts) ==
    IF Len(parts) > 2 THEN NaN
    ELSE parse_decimal(parts[1], IF Len(parts) = 2 THEN parts[2] ELSE <<>>)

\* v, or -v where minus
negated(v, minus) == IF v = NaN \/ ~minus THEN v ELSE <<0 - v[1]>>

\* float of a stripped text
parse_signed(text) ==
    IF text # <<>> /\ text[1] \in {"+", "-"}
    THEN negated(parse_parts(Split(Tail(text), ".")), text[1] = "-")
    ELSE parse_parts(Split(text, "."))

\* float(value) in thousandths, or NaN where it raises ValueError or gives nan
ParseFloat(value) == parse_signed(Strip(value, Whitespace))

\* value.replace("(", "-").replace(")", "")
unparenthesized(value) ==
    Remove([i \in 1..Len(value) |-> IF value[i] = "(" THEN "-" ELSE value[i]], {")"})

\* _clean_numeric from value.strip() on
clean_stripped(stripped) ==
    IF stripped = <<>> THEN NaN
    ELSE ParseFloat(unparenthesized(Remove(stripped, {",", "$"})))

\* _clean_numeric returning 0.0 where float(value) raises ValueError
_clean_numeric_zero(value) ==
    IF value = NaN THEN NaN
    ELSE IF clean_stripped(Strip(value[1], Whitespace)) = NaN THEN <<0>>
    ELSE clean_stripped(Strip(value[1], Whitespace))

_clean_numeric(value) ==
    IF value = NaN THEN NaN ELSE clean_stripped(Strip(value[1], Whitespace))

DaysInMonth(y, m) ==
    IF m = 2 THEN (IF (y % 4 = 0 /\ y % 100 # 0) \/ y % 400 = 0 THEN 29 ELSE 28)
    ELSE IF m \in {4, 6, 9, 11} THEN 30 ELSE 31

\* the day ordinal of a civil date
days_from_civil(y0, m, d) ==
    LET y   == IF m <= 2 THEN y0 - 1 ELSE y0
        era == y \div 400
        yoe == y - era * 400
        doy == (153 * (IF m > 2 THEN m - 3 ELSE m + 9) + 2) \div 5 + d - 1
        doe == yoe * 365 + yoe \div 4 - yoe \div 100 + doy
    IN  era * 146097 + doe - 719468

\* the day ordinal of year y, month m, day d, or NaT where there is no such day
valid_date(y, m, d) ==
    IF m \in 1..12 /\ d \in 1..DaysInMonth(y, m) THEN <<days_from_civil(y, m, d)>> ELSE NaN

\* the date of the parts of a text split at "-"
date_of_parts(parts) ==
    IF /\ Len(parts) = 3
       /\ Len(parts[1]) = 4 /\ Len(parts[2]) = 2 /\ Len(parts[3]) = 2
       /\ \A p \in 1..3 : \A i \in 1..Len(parts[p]) : parts[p][i] \in Digits
    THEN valid_date(ParseInt(parts[1]), ParseInt(parts[2]), ParseInt(parts[3]))
    ELSE NaN

\* pd.to_datetime(cell, errors="coerce") on the date texts of the model
to_datetime(cell) ==
    IF cell = NaN THEN NaN ELSE date_of_parts(Split(Strip(cell[1], Whitespace), "-"))

\* Series.fillna(0.0)
fillna0(v) == IF v = NaN THEN 0 ELSE v[1]

\* the orders of the indices I that are permutations of it
RECURSIVE Perms(_)
Perms(I) ==
    IF I = {} THEN {<<>>}
    ELSE UNION {{<<i>> \o p : p \in Perms(I \ {i})} : i \in I}

\* sort_values("date"): the orders of the rows I by ascending date; the
\* default sort is not stable, so rows of one date come in any order
RECURSIVE date_orders(_, _)
date_orders(rows, I) ==
    IF I = {} THEN {<<>>}
    ELSE LET first == Min({rows[i].date : i \in I})
             tied  == {i \in I : rows[i].date = first}
         IN  {p \o q : p \in Perms(tied), q \in date_orders(rows, I \ tied)}

\* df[column].apply(_clean_numeric)
numeric(df, column) ==
    [k \in 1..Len(df.rows) |-> _clean_numeric(Column(df, column[1])[k])]

\* the columns read_scotiabank_csv finds in df
find_columns(columns) ==
    [date        |-> _find_first_match(columns, DATE_CANDIDATES),
     description |-> _find_first_match(columns, DESCRIPTION_CANDIDATES),
     balance     |-> _find_first_match(columns, BALANCE_CANDIDATES),
     account     |-> _find_first_match(columns, ACCOUNT_CANDIDATES),
     amount      |-> _find_first_match(columns, AMOUNT_CANDIDATES),
     debit       |-> _find_first_match(columns, DEBIT_CANDIDATES),
     credit      |-> _find_first_match(columns, CREDIT_CANDIDATES)]

\* amount_values, where there is an amount, a debit or a credit column
amount_values(df, found) ==
    IF found.amount # None THEN numeric(df, found.amount)
    ELSE [k \in 1..Len(df.rows) |->
            <<0 - (IF found.debit # None THEN fillna0(numeric(df, found.debit)[k]) ELSE 0)
                + (IF found.credit # None THEN fillna0(numeric(df, found.credit)[k]) ELSE 0)>>]

\* normalized, before dropna
normalized_frame(df, found, account_name, amounts) ==
    [k \in 1..Len(df.rows) |->
        [date         |-> to_datetime(Column(df, found.date[1])[k]),
         description  |-> _clean_string(Column(df, found.description[1])[k]),
         amount       |-> amounts[k],
         account_name |-> account_name,
         balance      |-> IF found.balance # None
                          THEN numeric(df, found.balance)[k] ELSE NaN]]

\* a row that dropna keeps, its date and amount as values
present(r) == [r EXCEPT !.date = r.date[1], !.amount = r.amount[1]]

\* normalized.dropna(subset=["date", "amount"])
dropna(normalized) ==
    LET kept == SelectSeq(normalized, LAMBDA r : r.date # NaN /\ r.amount # NaN)
    IN  [k \in 1..Len(kept) |-> present(kept[k])]

\* normalized.sort_values("date").reset_index(drop=True)
sort_by_date(rows) ==
    {[k \in 1..Len(rows) |-> rows[order[k]]] : order \in date_orders(rows, 1..Len(rows))}

\* read_scotiabank_csv from the columns it has found on
normalize_frame(df, found, file_name) ==
    IF found.date = None \/ found.description = None
    THEN [raised |-> "ValueError", frames |-> {}]
    ELSE IF found.amount = None /\ found.debit = None /\ found.credit = None
    THEN [raised |-> "ValueError", frames |-> {}]
    ELSE [raised |-> "none",
          frames |-> sort_by_date(dropna(normalized_frame(df, found,
                        infer_account_name(file_name,
                            IF found.account # None
                            THEN <<Column(df, found.account[1])>> ELSE None),
                        amount_values(df, found))))]

\* read_scotiabank_csv from df.columns = _normalize_columns(df.columns) on
read_frame(df, file_name) == normalize_frame(df, find_columns(df.columns), file_name)

\* df with its columns normalized
with_columns(df) == [columns |-> _normalize_columns(df.columns), rows |-> df.rows]

\* pd.read_csv finds no line to take the columns from, and raises
\* EmptyDataError, which is a ValueError
no_columns(decoded) == \A k \in 1..Len(Split(decoded, "\n")) : Split(decoded, "\n")[k] = <<>>

\* what read_scotiabank_csv does: the exception it raises, or the frames it
\* can return
read_scotiabank_csv(decoded, file_name) ==
    IF no_columns(decoded) THEN [raised |-> "EmptyDataError", frames |-> {}]
    ELSE read_frame(with_columns(read_csv(decoded, ",")), file_name)

\* the frames pd.concat(frames) can be for the files from the k-th on, where
\* read[k] is what read_scotiabank_csv does with the k-th
RECURSIVE concat_frames(_, _)
concat_frames(read, k) ==
    IF k > Len(read) THEN {<<>>}
    ELSE {frame \o rest : frame \in read[k].frames, rest \in concat_frames(read, k + 1)}

\* load_and_normalize_files from the loop over file_payloads on
combine_frames(read) ==
    IF \E k \in 1..Len(read) : read[k].raised # "none"
    THEN [raised |-> "ValueError", frames |-> {}]
    ELSE IF read = <<>> THEN [raised |-> "none", frames |-> {<<>>}]
    ELSE [raised |-> "none",
          frames |-> {result.out :
                        result \in UNION {remove_internal_transfers(combined, DefaultToleranceDays) :
                                            combined \in concat_frames(read, 1)}}]

load_and_normalize_files(file_payloads) ==
    combine_frames([k \in 1..Len(file_payloads) |->
                       read_scotiabank_csv(file_payloads[k][2], <<file_payloads[k][1]>>)])

(***************************************************************************)
(* One file read by read_scotiabank_csv and the table handed on to         *)
(* clean_transactions.  The file is a header, which holds some of the      *)
(* columns Date, Description, Amount, Debit and Credit, and the lines      *)
(* below it.                                                               *)
(***************************************************************************)
READ_COLUMNS == <<"Date", "Description", "Amount", "Debit", "Credit">>

\* the headers of the files: READ_COLUMNS with any of them left out
ReadHeaders ==
    {SelectSeq(READ_COLUMNS, LAMBDA c : c \in S) : S \in SUBSET {"Date", "Description", "Amount", "Debit", "Credit"}}

ColumnText ==
    [Date |-> <<"D", "a", "t", "e">>, Description |-> <<"D", "e", "s", "c", "r", "i", "p", "t", "i", "o", "n">>, Amount |-> <<"A", "m", "o", "u", "n", "t">>,
     Debit |-> <<"D", "e", "b", "i", "t">>, Credit |-> <<"C", "r", "e", "d", "i", "t">>]

\* a line of a file: its cells by column, and what the date and the Amount
\* cell stand for (NaN: nothing)
ReadRow(date, description, amount, debit, credit, day, value) ==
    [Date |-> date, Description |-> description, Amount |-> amount,
     Debit |-> debit, Credit |-> credit, day |-> day, value |-> value]

\* the lines of the files: well-formed ones, one with a currency sign, one with a negative in parentheses on a day that does
\* not exist, one with a date that is no date, and two with an Amount that is
\* no number
ReadRows ==
    { ReadRow(<<"2", "0", "2", "4", "-", "0", "3", "-", "0", "1">>, <<"R", "e", "n", "t", " ", "M", "a", "r", "c", "h">>, <<"-", "1", "5", "0", "0", ".", "0", "0">>, <<"1", "5", "0", "0", ".", "0", "0">>, <<>>,
              <<19783>>, <<-1500000>>),
      ReadRow(<<"2", "0", "2", "4", "-", "0", "3", "-", "0", "2">>, <<"P", "a", "y">>, <<"$", "1", "2", "0", "0", ".", "5", "0">>,
              <<>>, <<"1", "2", "0", "0", ".", "5", "0">>, <<19784>>, <<1200500>>),
      ReadRow(<<"2", "0", "2", "4", "-", "0", "2", "-", "3", "0">>, <<"R", "e", "f", "u", "n", "d">>, <<"(", "1", "2", ".", "0", "0", ")">>, <<"1", "2", ".", "0", "0">>, <<>>,
              NaN, <<-12000>>),
      ReadRow(<<"p", "e", "n", "d", "i", "n", "g">>, <<"C", "a", "r", "d", " ", "H", "o", "l", "d">>, <<"-", "5", ".", "0", "0">>, <<"5", ".", "0", "0">>, <<>>,
              NaN, <<-5000>>),
      ReadRow(<<"2", "0", "2", "4", "-", "0", "3", "-", "0", "6">>, <<"C", "h", "e", "q", "u", "e", " ", "4", "2">>, <<"N", "/", "A">>, <<"N", "/", "A">>, <<>>,
              <<19788>>, NaN),
      ReadRow(<<"2", "0", "2", "4", "-", "0", "3", "-", "0", "1">>, <<"C", "o", "f", "f", "e", "e">>, <<"4", ".", "5", "x">>, <<"4", ".", "5", "x">>, <<>>,
              <<19783>>, NaN) }

\* ",".join(cells)
RECURSIVE csv_line(_)
csv_line(cells) ==
    IF cells = <<>> THEN <<>>
    ELSE IF Len(cells) = 1 THEN cells[1]
    ELSE cells[1] \o <<",">> \o csv_line(Tail(cells))

\* the text of the file with that header and these lines
csv_text(header, rows) ==
    Flatten([k \in 1..(Len(rows) + 1) |->
                csv_line([c \in 1..Len(header) |->
                             IF k = 1 THEN ColumnText[header[c]]
                             ELSE rows[k - 1][header[c]]]) \o <<"\n">>])

ReaderInit ==
    /\ rd_pc = "start"
    /\ rd_header \in ReadHeaders
    /\ rd_rows \in Tables(ReadRows, MaxReadRows)
    /\ rd_raised = "none"
    /\ rd_out = <<>>

\* read_scotiabank_csv(raw_bytes, "upload.csv"); the table it returns goes on
\* to clean_transactions
ReadFile ==
    /\ rd_pc = "start"
    /\ LET read == read_scotiabank_csv(csv_text(rd_header, rd_rows), <<<<"u", "p", "l", "o", "a", "d", ".", "c", "s", "v">>>>)
       IN  IF read.raised # "none"
           THEN /\ rd_raised' = read.raised
                /\ rd_out' = <<>>
                /\ UNCHANGED clVars
           ELSE /\ rd_raised' = "none"
                /\ \E frame \in read.frames :
                      /\ rd_out' = frame
                      /\ cl_df' = frame
                /\ cl_pc' = "start"
                /\ UNCHANGED <<cl_once, cl_twice>>
    /\ rd_pc' = "done"
    /\ UNCHANGED <<rd_header, rd_rows, trVars, lkVars, enVars, appVars>>

(***************************************************************************)
(* streamlit_app.py: one run of main() for each thing the user does.       *)
(* The filters and the charts that main() draws from the transformed       *)
(* table are not part of the model.                                        *)
(***************************************************************************)
SAMPLE_DATA ==
    << "D", "a", "t", "e", ",", "D", "e", "s", "c", "r", "i", "p", "t", "i", "o", "n", ",", "D", "e", "b", "i", "t", ",", "C", "r", "e", "d", "i", "t", ",", "B", "a", "l", "a", "n", "c", "e", "\n",
       "2", "0", "2", "4", "-", "0", "1", "-", "0", "2", ",", "P", "a", "y", "r", "o", "l", "l", " ", "D", "e", "p", "o", "s", "i", "t", ",", ",", "2", "8", "0", "0", ".", "0", "0", ",", "4", "2", "0", "0", ".", "5", "5", "\n",
       "2", "0", "2", "4", "-", "0", "1", "-", "0", "3", ",", "T", "i", "m", " ", "H", "o", "r", "t", "o", "n", "s", ",", "4", ".", "5", "8", ",", ",", "4", "1", "9", "5", ".", "9", "7", "\n",
       "2", "0", "2", "4", "-", "0", "1", "-", "0", "4", ",", "R", "e", "n", "t", " ", "D", "o", "w", "n", "t", "o", "w", "n", " ", "A", "p", "t", ",", "1", "8", "0", "0", ".", "0", "0", ",", ",", "2", "3", "9", "5", ".", "9", "7", "\n",
       "2", "0", "2", "4", "-", "0", "1", "-", "0", "5", ",", "U", "b", "e", "r", " ", "T", "r", "i", "p", " ", "1", "2", "3", "4", ",", "1", "8", ".", "2", "5", ",", ",", "2", "3", "7", "7", ".", "7", "2", "\n",
       "2", "0", "2", "4", "-", "0", "1", "-", "0", "5", ",", "S", "c", "o", "t", "i", "a", " ", "S", "a", "v", "i", "n", "g", "s", " ", "T", "r", "a", "n", "s", "f", "e", "r", ",", ",", "3", "0", "0", ".", "0", "0", ",", "2", "6", "7", "7", ".", "7", "2", "\n",
       "2", "0", "2", "4", "-", "0", "1", "-", "0", "5", ",", "S", "c", "o", "t", "i", "a", " ", "S", "a", "v", "i", "n", "g", "s", " ", "T", "r", "a", "n", "s", "f", "e", "r", ",", "3", "0", "0", ".", "0", "0", ",", ",", "2", "3", "7", "7", ".", "7", "2", "\n",
       "2", "0", "2", "4", "-", "0", "1", "-", "0", "6", ",", "G", "r", "o", "c", "e", "r", "i", "e", "s", " ", "-", " ", "L", "o", "b", "l", "a", "w", "s", ",", "1", "2", "6", ".", "3", "8", ",", ",", "2", "2", "5", "1", ".", "3", "4", "\n",
       "2", "0", "2", "4", "-", "0", "1", "-", "0", "7", ",", "N", "e", "t", "f", "l", "i", "x", ".", "c", "o", "m", ",", "1", "6", ".", "9", "9", ",", ",", "2", "2", "3", "4", ".", "3", "5", "\n",
       "2", "0", "2", "4", "-", "0", "1", "-", "0", "8", ",", "C", "o", "s", "t", "c", "o", " ", "W", "h", "o", "l", "e", "s", "a", "l", "e", ",", "2", "1", "0", ".", "4", "5", ",", ",", "2", "0", "2", "3", ".", "9", "0", "\n",
       "2", "0", "2", "4", "-", "0", "1", "-", "1", "0", ",", "S", "h", "e", "l", "l", " ", "C", "a", "n", "a", "d", "a", ",", "6", "2", ".", "4", "4", ",", ",", "1", "9", "6", "1", ".", "4", "6", "\n",
       "2", "0", "2", "4", "-", "0", "1", "-", "1", "5", ",", "I", "n", "s", "u", "r", "a", "n", "c", "e", " ", "P", "r", "e", "m", "i", "u", "m", ",", "9", "5", ".", "1", "2", ",", ",", "1", "8", "6", "6", ".", "3", "4", "\n",
       "2", "0", "2", "4", "-", "0", "1", "-", "2", "0", ",", "I", "n", "t", "e", "r", "e", "s", "t", " ", "P", "a", "y", "m", "e", "n", "t", ",", ",", "4", ".", "2", "2", ",", "1", "8", "7", "0", ".", "5", "6", "\n",
       "2", "0", "2", "4", "-", "0", "1", "-", "2", "3", ",", "R", "o", "g", "e", "r", "s", " ", "C", "o", "m", "m", "u", "n", "i", "c", "a", "t", "i", "o", "n", "s", ",", "8", "9", ".", "5", "0", ",", ",", "1", "7", "8", "1", ".", "0", "6", "\n",
       "2", "0", "2", "4", "-", "0", "1", "-", "2", "5", ",", "S", "t", "a", "r", "b", "u", "c", "k", "s", " ", "C", "o", "f", "f", "e", "e", ",", "8", ".", "7", "6", ",", ",", "1", "7", "7", "2", ".", "3", "0", "\n",
       "2", "0", "2", "4", "-", "0", "1", "-", "2", "8", ",", "S", "i", "d", "e", " ", "G", "i", "g", " ", "P", "a", "y", "m", "e", "n", "t", ",", ",", "4", "2", "0", ".", "0", "0", ",", "2", "1", "9", "2", ".", "3", "0", "\n",
       "2", "0", "2", "4", "-", "0", "2", "-", "0", "2", ",", "P", "a", "y", "r", "o", "l", "l", " ", "D", "e", "p", "o", "s", "i", "t", ",", ",", "2", "8", "0", "0", ".", "0", "0", ",", "4", "9", "9", "2", ".", "3", "0", "\n",
       "2", "0", "2", "4", "-", "0", "2", "-", "0", "3", ",", "G", "r", "o", "c", "e", "r", "i", "e", "s", " ", "-", " ", "N", "o", " ", "F", "r", "i", "l", "l", "s", ",", "1", "3", "5", ".", "1", "2", ",", ",", "4", "8", "5", "7", ".", "1", "8", "\n",
       "2", "0", "2", "4", "-", "0", "2", "-", "0", "4", ",", "U", "b", "e", "r", " ", "E", "a", "t", "s", ",", "3", "2", ".", "5", "5", ",", ",", "4", "8", "2", "4", ".", "6", "3", "\n",
       "2", "0", "2", "4", "-", "0", "2", "-", "0", "5", ",", "M", "o", "r", "t", "g", "a", "g", "e", " ", "P", "a", "y", "m", "e", "n", "t", ",", "1", "6", "0", "0", ".", "0", "0", ",", ",", "3", "2", "2", "4", ".", "6", "3", "\n",
       "2", "0", "2", "4", "-", "0", "2", "-", "0", "7", ",", "H", "y", "d", "r", "o", " ", "O", "n", "e", ",", "8", "2", ".", "3", "0", ",", ",", "3", "1", "4", "2", ".", "3", "3", "\n",
       "2", "0", "2", "4", "-", "0", "2", "-", "0", "9", ",", "S", "p", "o", "t", "i", "f", "y", " ", "P", "0", "7", ",", "1", "1", ".", "9", "9", ",", ",", "3", "1", "3", "0", ".", "3", "4", "\n",
       "2", "0", "2", "4", "-", "0", "2", "-", "1", "0", ",", "C", "o", "s", "t", "c", "o", " ", "W", "h", "o", "l", "e", "s", "a", "l", "e", ",", "1", "9", "5", ".", "7", "5", ",", ",", "2", "9", "3", "4", ".", "5", "9", "\n",
       "2", "0", "2", "4", "-", "0", "2", "-", "1", "2", ",", "I", "n", "t", "e", "r", "e", "s", "t", " ", "P", "a", "y", "m", "e", "n", "t", ",", ",", "4", ".", "4", "5", ",", "2", "9", "3", "9", ".", "0", "4", "\n",
       "2", "0", "2", "4", "-", "0", "2", "-", "1", "5", ",", "S", "c", "o", "t", "i", "a", " ", "V", "i", "s", "a", " ", "P", "a", "y", "m", "e", "n", "t", ",", "4", "5", "0", ".", "0", "0", ",", ",", "2", "4", "8", "9", ".", "0", "4", "\n",
       "2", "0", "2", "4", "-", "0", "2", "-", "1", "8", ",", "S", "h", "o", "p", "p", "e", "r", "s", " ", "D", "r", "u", "g", " ", "M", "a", "r", "t", ",", "4", "7", ".", "3", "3", ",", ",", "2", "4", "4", "1", ".", "7", "1", "\n",
       "2", "0", "2", "4", "-", "0", "2", "-", "2", "0", ",", "A", "i", "r", "b", "n", "b", " ", "B", "o", "o", "k", "i", "n", "g", ",", "3", "2", "0", ".", "0", "0", ",", ",", "2", "1", "2", "1", ".", "7", "1", "\n",
       "2", "0", "2", "4", "-", "0", "2", "-", "2", "2", ",", "A", "m", "a", "z", "o", "n", " ", "M", "a", "r", "k", "e", "t", "p", "l", "a", "c", "e", ",", "6", "8", ".", "9", "0", ",", ",", "2", "0", "5", "2", ".", "8", "1", "\n",
       "2", "0", "2", "4", "-", "0", "2", "-", "2", "5", ",", "S", "i", "d", "e", " ", "G", "i", "g", " ", "P", "a", "y", "m", "e", "n", "t", ",", ",", "4", "6", "0", ".", "0", "0", ",", "2", "5", "1", "2", ".", "8", "1", "\n" >>

\* the frames read_scotiabank_csv(SAMPLE_DATA.encode("utf-8"), "sample.csv")
\* can return
sample_frames == read_scotiabank_csv(SAMPLE_DATA, <<<<"s", "a", "m", "p", "l", "e", ".", "c", "s", "v">>>>).frames

\* The files the user has at hand: a chequing export with an amount column,
\* a savings export with a debit and a credit column, and a file that is
\* no statement.
CHEQUING_CSV ==
    << "D", "a", "t", "e", ",", "D", "e", "s", "c", "r", "i", "p", "t", "i", "o", "n", ",", "A", "m", "o", "u", "n", "t", "\n",
       "2", "0", "2", "4", "-", "0", "3", "-", "0", "1", ",", "R", "e", "n", "t", " ", "M", "a", "r", "c", "h", ",", "-", "1", "5", "0", "0", ".", "0", "0", "\n",
       "2", "0", "2", "4", "-", "0", "3", "-", "0", "2", ",", "T", "r", "a", "n", "s", "f", "e", "r", " ", "t", "o", " ", "S", "a", "v", "i", "n", "g", "s", ",", "-", "2", "0", "0", ".", "0", "0", "\n",
       "2", "0", "2", "4", "-", "0", "3", "-", "0", "3", ",", "W", "e", "n", "d", "y", "s", " ", "#", "1", "2", ",", "-", "9", ".", "5", "0", "\n",
       "2", "0", "2", "4", "-", "0", "3", "-", "0", "4", ",", "M", "y", "s", "t", "e", "r", "y", " ", "S", "h", "o", "p", ",", "-", "2", "0", ".", "0", "0", "\n",
       "2", "0", "2", "4", "-", "0", "3", "-", "0", "5", ",", "T", "i", "m", " ", "H", "o", "r", "t", "o", "n", "s", ",", "0", ".", "0", "0", "\n",
       "p", "e", "n", "d", "i", "n", "g", ",", "C", "a", "r", "d", " ", "H", "o", "l", "d", ",", "-", "5", ".", "0", "0", "\n",
       "2", "0", "2", "4", "-", "0", "3", "-", "0", "6", ",", "C", "h", "e", "q", "u", "e", " ", "4", "2", ",", "N", "/", "A", "\n" >>

SAVINGS_CSV ==
    << "P", "o", "s", "t", "i", "n", "g", " ", "D", "a", "t", "e", ",", "D", "e", "t", "a", "i", "l", "s", ",", "W", "i", "t", "h", "d", "r", "a", "w", "a", "l", "s", ",", "D", "e", "p", "o", "s", "i", "t", "s", ",", "B", "a", "l", "a", "n", "c", "e", "\n",
       "2", "0", "2", "4", "-", "0", "3", "-", "0", "3", ",", "T", "r", "a", "n", "s", "f", "e", "r", " ", "f", "r", "o", "m", " ", "C", "h", "e", "q", "u", "i", "n", "g", ",", ",", "2", "0", "0", ".", "0", "0", ",", "$", "1", "2", "0", "0", ".", "0", "0", "\n",
       "2", "0", "2", "4", "-", "0", "3", "-", "3", "1", ",", "I", "n", "t", "e", "r", "e", "s", "t", " ", "P", "a", "y", "m", "e", "n", "t", ",", ",", "1", ".", "2", "5", ",", "$", "1", "2", "0", "1", ".", "2", "5", "\n" >>

NOTES_CSV ==
    << "W", "h", "e", "n", ",", "M", "e", "m", "o", ",", "A", "m", "o", "u", "n", "t", "\n",
       "2", "0", "2", "4", "-", "0", "3", "-", "0", "1", ",", "G", "i", "f", "t", ",", "5", ".", "0", "0", "\n" >>

FILES ==
    << [name |-> <<"c", "h", "e", "q", "u", "i", "n", "g", ".", "c", "s", "v">>, value |-> CHEQUING_CSV],
       [name |-> <<"s", "a", "v", "i", "n", "g", "s", "_", "2", "0", "2", "4", ".", "c", "s", "v">>, value |-> SAVINGS_CSV],
       [name |-> <<"n", "o", "t", "e", "s", ".", "c", "s", "v">>, value |-> NOTES_CSV] >>

\* the runs of main() in one session
MaxRuns == 3

\* what the uploader can hold, as indices of FILES in the order of upload
Uploads == {<<>>, <<1>>, <<2>>, <<3>>, <<1, 2>>, <<2, 1>>}

\* the values of PF_CLASSIFY_API_URL and PF_CLASSIFY_API_KEY in the
\* environments of the model
ENVIRONMENTS ==
    { [url |-> None, key |-> None],
      [url |-> <<"https://enrich.example/classify">>, key |-> None],
      [url |-> <<"">>, key |-> <<"secret">>],
      [url |-> <<"https://enrich.example/classify">>, key |-> <<"secret">>] }

serialize_uploaded_files(files) ==
    [k \in 1..Len(files) |-> <<FILES[files[k]].name, FILES[files[k]].value>>]

\* ", ".join(names)
RECURSIVE Join(_)
Join(names) ==
    IF names = <<>> THEN <<>>
    ELSE IF Len(names) = 1 THEN names[1]
    ELSE names[1] \o <<",", " ">> \o Join(Tail(names))

snapshot_file_list(files) == Join([k \in 1..Len(files) |-> FILES[files[k]].name])

\* The memory of the process is a record m:
\*   st_cache      : the entries of @st.cache_data, for each cached function
\*   api_cache     : the entries of @lru_cache around _call_enrichment_api
\*   session_state : st.session_state
\*   transformed   : what the last run of the body of transform_dataset did

\* the entry of args in the entries of a cached function, or None
cache_data(entries, args) ==
    IF \E e \in entries : e.args = args
    THEN <<(CHOOSE e \in entries : e.args = args).value>> ELSE None

\* a call of a function under @st.cache_data where hit is the entry of its
\* arguments and ran is what its body can do: the entry if there is one
cached(m, hit, ran) ==
    IF hit # None THEN {[m |-> m, raised |-> "none", value |-> hit[1]]} ELSE ran

\* @st.cache_data load_sample_data
load_sample_data(m) ==
    cached(m, cache_data(m.st_cache.load_sample_data, <<>>),
           {[m |-> [m EXCEPT !.st_cache.load_sample_data =
                                @ \cup {[args |-> <<>>, value |-> frame]}],
             raised |-> "none",
             value |-> frame] : frame \in sample_frames})

\* the body of ingest_uploaded_files, where load_and_normalize_files has
\* done loaded: an exception is not cached
ingested(m, serialized_files, loaded) ==
    IF loaded.raised # "none"
    THEN {[m |-> m, raised |-> loaded.raised, value |-> <<>>]}
    ELSE {[m |-> [m EXCEPT !.st_cache.ingest_uploaded_files =
                                @ \cup {[args |-> serialized_files, value |-> frame]}],
           raised |-> "none",
           value |-> frame] : frame \in loaded.frames}

\* @st.cache_data ingest_uploaded_files
ingest_uploaded_files(m, serialized_files) ==
    cached(m, cache_data(m.st_cache.ingest_uploaded_files, serialized_files),
           ingested(m, serialized_files, load_and_normalize_files(serialized_files)))

\* the memory after the body of transform_dataset, where classify_transactions
\* has gone as outcome: an exception is not cached
transformed_memory(m, raw_df, use_api, cleaned, outcome) ==
    [m EXCEPT !.api_cache = outcome.cache,
              !.transformed = <<[raw_df |-> raw_df, use_api |-> use_api,
                                 cleaned |-> cleaned, classified |-> outcome.frame,
                                 raised |-> outcome.raised,
                                 requests |-> outcome.requests]>>,
              !.st_cache.transform_dataset =
                   IF outcome.raised # "none" THEN @
                   ELSE @ \cup {[args |-> <<raw_df, use_api>>, value |-> outcome.frame]}]

\* the body of transform_dataset from classify_transactions on
classified_dataset(m, raw_df, use_api, url, key, cleaned) ==
    {[m |-> transformed_memory(m, raw_df, use_api, cleaned, outcome),
      raised |-> outcome.raised,
      value |-> outcome.frame] :
        outcome \in classify_transactions(cleaned, use_api, url, key, m.api_cache)}

\* @st.cache_data transform_dataset; the key of a frame is its to_csv text,
\* which tells any two frames of the model apart
transform_dataset(m, raw_df, use_api, url, key) ==
    cached(m, cache_data(m.st_cache.transform_dataset, <<raw_df, use_api>>),
           classified_dataset(m, raw_df, use_api, url, key, clean_transactions(raw_df)))

\* the exception that leaves _run_acceptance_tests, and the memory it leaves
_run_acceptance_tests(m, url, key) ==
    UNION {IF sample.value = <<>>
           THEN {[m |-> sample.m, raised |-> "AssertionError"]}
           ELSE {[m |-> result.m,
                  raised |-> IF result.raised # "none" THEN result.raised
                             ELSE IF \A k \in 1..Len(result.value) :
                                        result.value[k].class \in {"Earnings", "Expenses"}
                             THEN "none" ELSE "AssertionError"] :
                     result \in transform_dataset(sample.m, sample.value, FALSE, url, key)} :
              sample \in load_sample_data(m)}

\* hero_section: the exception that leaves it, the memory it leaves and the
\* frame it returns
hero_section(m, sample_clicked, files) ==
    IF sample_clicked
    THEN {[m |-> [sample.m EXCEPT !.session_state.raw_df = <<sample.value>>,
                                  !.session_state.data_source = <<<<"S", "a", "m", "p", "l", "e", " ", "d", "a", "t", "a", "s", "e", "t">>>>],
           raised |-> "none",
           raw_df |-> <<sample.value>>] : sample \in load_sample_data(m)}
    ELSE IF files # <<>>
    THEN {IF uploaded.raised # "none"
          THEN [m |-> uploaded.m, raised |-> uploaded.raised, raw_df |-> None]
          ELSE [m |-> [uploaded.m EXCEPT
                          !.session_state.raw_df = <<uploaded.value>>,
                          !.session_state.data_source =
                              <<<<"U", "p", "l", "o", "a", "d", "e", "d", " ", "f", "i", "l", "e", "s", ":", " ">> \o snapshot_file_list(files)>>],
                raised |-> "none",
                raw_df |-> <<uploaded.value>>] :
             uploaded \in ingest_uploaded_files(m, serialize_uploaded_files(files))}
    ELSE {[m |-> m, raised |-> "none", raw_df |-> m.session_state.raw_df]}

\* what a run shows
Page(status, error, table, toggle) ==
    [status |-> status, error |-> error, table |-> table, toggle_shown |-> toggle]

\* main() from hero_section on
main_from_hero(m, sample_clicked, files, url, key) ==
    UNION {IF hero.raised # "none"
           THEN {[m |-> hero.m, page |-> Page("error", hero.raised, <<>>, FALSE)]}
           ELSE IF hero.raw_df = None \/ hero.raw_df = <<<<>>>>
           THEN {[m |-> hero.m, page |-> Page("no data", "none", <<>>, FALSE)]}
           ELSE {[m |-> result.m,
                  page |-> IF result.raised # "none"
                           THEN Page("error", result.raised, <<>>, TRUE)
                           ELSE Page("shown", "none", result.value, TRUE)] :
                    result \in transform_dataset(hero.m, hero.raw_df[1],
                                        hero.m.session_state.use_api_toggle, url, key)} :
              hero \in hero_section(m, sample_clicked, files)}

\* the acceptance tests of main(), which run once in a session
acceptance_tests(m, url, key) ==
    IF m.session_state._acceptance_tests_run THEN {[m |-> m, raised |-> "none"]}
    ELSE {[m |-> [tests.m EXCEPT !.session_state._acceptance_tests_run =
                     tests.raised \in {"none", "AssertionError"}],
           raised |-> IF tests.raised = "AssertionError" THEN "none" ELSE tests.raised] :
             tests \in _run_acceptance_tests(m, url, key)}

\* main(): the memory and the page a run can end with
main(m, sample_clicked, files, url, key) ==
    UNION {IF tests.raised # "none"
           THEN {[m |-> tests.m, page |-> Page("error", tests.raised, <<>>, FALSE)]}
           ELSE main_from_hero(tests.m, sample_clicked, files, url, key) :
              tests \in acceptance_tests(m, url, key)}

\* the memory of the process
Memory ==
    [st_cache |-> st_cache, api_cache |-> api_cache,
     session_state |-> session_state, transformed |-> transformed]

AppInit ==
    /\ \E env \in ENVIRONMENTS : API_URL = env.url /\ API_KEY = env.key
    /\ service = None
    /\ st_cache = [load_sample_data |-> {}, ingest_uploaded_files |-> {},
                   transform_dataset |-> {}]
    /\ api_cache = <<>>
    /\ session_state = [raw_df |-> None, data_source |-> None,
                        use_api_toggle |-> FALSE, _acceptance_tests_run |-> FALSE]
    /\ transformed = None
    /\ uploaded_files = <<>>
    /\ page = Page("closed", "none", <<>>, FALSE)
    /\ runs = 0

\* one run of main(), with the button, the uploader and the toggle as the
\* user has left them
Run(sample_clicked, files, use_api) ==
    /\ runs < MaxRuns
    /\ \E end \in main([Memory EXCEPT !.session_state.use_api_toggle = use_api],
                       sample_clicked, files, API_URL, API_KEY) :
          /\ st_cache' = end.m.st_cache
          /\ api_cache' = end.m.api_cache
          /\ session_state' = end.m.session_state
          /\ transformed' = end.m.transformed
          /\ page' = end.page
    /\ uploaded_files' = files
    /\ runs' = runs + 1
    /\ UNCHANGED <<API_URL, API_KEY, service, trVars, clVars, lkVars, rdVars, enVars>>

\* the user opens the page
OpenPage ==
    /\ page.status = "closed"
    /\ Run(FALSE, <<>>, FALSE)

\* the user clicks "Use sample data"
UseSampleData ==
    /\ page.status # "closed"
    /\ Run(TRUE, uploaded_files, session_state.use_api_toggle)

\* the user changes the files in the uploader
UploadFiles ==
    /\ page.status # "closed"
    /\ \E files \in Uploads \ {uploaded_files} :
          Run(FALSE, files, session_state.use_api_toggle)

\* the user flips "Use API enrichment"
ToggleApi ==
    /\ page.toggle_shown
    /\ Run(FALSE, uploaded_files, ~session_state.use_api_toggle)

(***************************************************************************)
(* classify_transactions called again and again in one process, with the   *)
(* cache that functools.lru_cache keeps for _call_enrichment_api           *)
(* (SpecEnrich).  The service gives each description one reply, the same   *)
(* each time it is asked.                                                  *)
(***************************************************************************)
\* a description that both local lookups miss
WATCHED == <<"m", "y", "s", "t", "e", "r", "y", " ", "s", "h", "o", "p">>

\* the description of the n-th merchant of the statements
merchant(n) == <<"#">> \o ZeroPadded(n, 3)

\* the k-th statement: StatementRows rows, each of a merchant of its own
statement(k) ==
    [n \in 1..StatementRows |->
        MkRow(k, merchant((k - 1) * StatementRows + n), -1000 * n)]

\* the small tables: the watched description once, twice in two spellings,
\* or next to a row that the keyword lookup resolves
SMALL_TABLES ==
    { << MkRow(0, <<"M", "y", "s", "t", "e", "r", "y", " ", "S", "h", "o", "p">>, -20000) >>,
      << MkRow(0, <<"M", "Y", "S", "T", "E", "R", "Y", " ", " ", "S", "H", "O", "P">>, 20000), MkRow(1, <<"M", "y", "s", "t", "e", "r", "y", " ", "S", "h", "o", "p">>, -20000) >>,
      << MkRow(0, <<"T", "i", "m", " ", "H", "o", "r", "t", "o", "n", "s">>, -4500), MkRow(1, <<"M", "y", "s", "t", "e", "r", "y", " ", "S", "h", "o", "p">>, -20000) >> }

\* the descriptions the service can be asked about
ASKED == {WATCHED} \cup {merchant(n) : n \in 1..(MaxStatements * StatementRows)}

\* the index in REPLIES of the reply with the labels "Dining", "Takeout"
BOTH_LABELS == CHOOSE r \in 1..Len(REPLIES) : REPLIES[r].name = "both labels"

\* the requests for description among requests
sent_for(requests, description) ==
    Cardinality({i \in 1..Len(requests) : requests[i].description = description})

\* the requests for description that sent counts
requests_sent(sent, description) ==
    IF description \in DOMAIN sent THEN sent[description] ELSE 0

\* en_sent after requests: the count of each description asked so far
count_requests(sent, requests) ==
    [d \in DOMAIN sent \cup {requests[i].description : i \in 1..Len(requests)} |->
        requests_sent(sent, d) + sent_for(requests, d)]

\* the process starts with the endpoint and the credential set, an empty
\* cache, and a service that answers each merchant of the statements with
\* both labels and the watched description in one of the ways of REPLIES
EnrichInit ==
    /\ API_URL = <<"https://enrich.example/classify">>
    /\ API_KEY = <<"secret">>
    /\ \E r \in 1..Len(REPLIES) :
          service = [d \in ASKED |-> IF d = WATCHED THEN r ELSE BOTH_LABELS]
    /\ api_cache = <<>>
    /\ st_cache = [load_sample_data |-> {}, ingest_uploaded_files |-> {},
                   transform_dataset |-> {}]
    /\ session_state = [raw_df |-> None, data_source |-> None,
                        use_api_toggle |-> FALSE, _acceptance_tests_run |-> FALSE]
    /\ transformed = None
    /\ uploaded_files = <<>>
    /\ page = Page("closed", "none", <<>>, FALSE)
    /\ runs = 0
    /\ en_df = <<>> /\ en_use_api = FALSE /\ en_out = None
    /\ en_sent = <<>> /\ en_statements = 0

\* one call classify_transactions(df, use_api=use_api)
Classify(df, use_api) ==
    /\ \E out \in classify_transactions(df, use_api, API_URL, API_KEY, api_cache) :
          /\ api_cache' = out.cache
          /\ en_out' = [raised |-> out.raised, frame |-> out.frame,
                        requests |-> out.requests]
          /\ en_sent' = count_requests(en_sent, out.requests)
    /\ en_df' = df
    /\ en_use_api' = use_api

\* a call with one of the small tables
ClassifyRows ==
    /\ requests_sent(en_sent, WATCHED) < MaxRequests
    /\ \E df \in SMALL_TABLES, use_api \in BOOLEAN : Classify(df, use_api)
    /\ UNCHANGED <<en_statements, API_URL, API_KEY, service, st_cache, session_state,
                   transformed, uploaded_files, page, runs, trVars, clVars, lkVars, rdVars>>

\* a call with the next statement, the remote enrichment on
ClassifyStatement ==
    /\ en_statements < MaxStatements
    /\ Classify(statement(en_statements + 1), TRUE)
    /\ en_statements' = en_statements + 1
    /\ UNCHANGED <<API_URL, API_KEY, service, st_cache, session_state,
                   transformed, uploaded_files, page, runs, trVars, clVars, lkVars, rdVars>>

(***************************************************************************)
(* Claims about remove_internal_transfers (SpecTransfers).                 *)
(***************************************************************************)
\* the index labels that the matched pairs hold
MatchedIdx == UNION {{tr_matched[k][1], tr_matched[k][2]} : k \in 1..Len(tr_matched)}

\* per index label of tr_df: whether the row is a transfer candidate (not a known
\* self-transfer label, and holding a transfer keyword)
Candidate ==
    [i \in 1..Len(tr_df) |->
        ~mask_customer(tr_df[i]) /\ _matches_transfer_keyword(tr_df[i].description)]

\* the candidate partners of row i, given the candidates cand: the candidates of
\* the opposite sign with the same absolute amount rounded to cents
Partners(cand, i) ==
    {j \in 1..Len(tr_df) :
        /\ \/ tr_df[i].amount > 0 /\ tr_df[j].amount < 0
           \/ tr_df[i].amount < 0 /\ tr_df[j].amount > 0
        /\ Round2(Abs(tr_df[i].amount)) = Round2(Abs(tr_df[j].amount))
        /\ cand[i] /\ cand[j]}

Near(i, j) == Abs(tr_df[i].date - tr_df[j].date) <= tr_tol

\* the rows of tr_df that are neither a known self-transfer label nor matched
Unmatched ==
    LET idx == SelectSeq(RangeIndex(Len(tr_df)),
                   LAMBDA i : ~mask_customer(tr_df[i]) /\ i \notin MatchedIdx)
    IN  [k \in 1..Len(idx) |-> tr_df[idx[k]]]

\* C2: the matched pairs are pairwise disjoint, each is one positive and one
\* negative transfer-flagged row of equal absolute amount rounded to cents
\* whose dates differ by at most tolerance_days, and the rows removed by pairing
\* are exactly the rows of these pairs.
C2_DisjointPairs ==
    tr_pc = "done" =>
        /\ \A a, b \in 1..Len(tr_matched) :
              a # b => {tr_matched[a][1], tr_matched[a][2]}
                          \cap {tr_matched[b][1], tr_matched[b][2]} = {}
        /\ \A a \in 1..Len(tr_matched) :
              LET p == tr_df[tr_matched[a][1]]
                  n == tr_df[tr_matched[a][2]]
              IN  /\ p.amount > 0 /\ n.amount < 0
                  /\ _matches_transfer_keyword(p.description)
                  /\ _matches_transfer_keyword(n.description)
                  /\ Round2(Abs(p.amount)) = Round2(Abs(n.amount))
                  /\ Abs(p.date - n.date) <= tr_tol
        /\ tr_out = Unmatched
        /\ Len(tr_out) + 2 * Len(tr_matched)
              = Cardinality({i \in 1..Len(tr_df) : ~mask_customer(tr_df[i])})

\* a run in which a candidate pair was passed over because one of its rows was
\* already consumed
C2_Witness ==
    /\ tr_pc = "done"
    /\ Len(tr_matched) = 1
    /\ LET cand == Candidate
       IN  \E i, j, k \in 1..Len(tr_df) :
              /\ j # k
              /\ {j, k} \subseteq Partners(cand, i)
              /\ Near(i, j) /\ Near(i, k)

\* C3: a positive and a negative transfer-flagged row of equal amount that have
\* no other candidate partner are both removed when their dates differ by at
\* most tolerance_days, and both retained when they differ by more.
C3_DateTolerance ==
    tr_pc = "done" =>
        /\ tr_out = Unmatched
        /\ LET cand == Candidate
           IN  \A i, j \in 1..Len(tr_df) :
                  (/\ tr_df[i].amount > 0
                   /\ Partners(cand, i) = {j}
                   /\ Partners(cand, j) = {i}) =>
                     IF Near(i, j)
                     THEN i \in MatchedIdx /\ j \in MatchedIdx
                     ELSE i \notin MatchedIdx /\ j \notin MatchedIdx

\* +300.00 and -300.00, one day apart, tolerance 2: both removed
C3_Witness ==
    /\ tr_pc = "done"
    /\ Len(tr_df) = 2
    /\ tr_tol = 2
    /\ Partners(Candidate, 1) = {2}
    /\ Abs(tr_df[1].date - tr_df[2].date) = 1
    /\ tr_out = <<>>

\* C4: when one positive row is the only candidate partner of several negative
\* rows within tolerance, exactly one pair is removed: the positive row and one
\* of these negative rows; the other negative rows stay in the output.
C4_OnePairOfSeveral ==
    tr_pc = "done" =>
        /\ tr_out = Unmatched
        /\ LET cand == Candidate
           IN  \A p \in 1..Len(tr_df) :
                  LET partners == Partners(cand, p)
                      near == {n \in partners : Near(p, n)}
                  IN  (/\ tr_df[p].amount > 0
                       /\ Cardinality(near) >= 2
                       /\ \A n \in partners : Partners(cand, n) = {p})
                      => /\ p \in MatchedIdx
                         /\ Cardinality(near \cap MatchedIdx) = 1
                         /\ Cardinality({k \in 1..Len(tr_matched) :
                                \/ tr_matched[k][1] = p
                                \/ tr_matched[k][2] \in partners}) = 1

\* two negative rows and one positive row of equal amount: two rows dropped
C4_Witness ==
    /\ tr_pc = "done"
    /\ Len(tr_df) = 3
    /\ \E p \in 1..3 :
          /\ tr_df[p].amount > 0
          /\ Cardinality({n \in Partners(Candidate, p) : Near(p, n)}) = 2
    /\ Len(tr_out) = 1
    /\ tr_out[1].amount < 0
    /\ _matches_transfer_keyword(tr_out[1].description)


\* whether rows i and j of tr_df are a candidate pair: a positive and a
\* negative transfer candidate of equal absolute amount rounded to cents whose
\* dates differ by at most tolerance_days
CandidatePair(i, j) ==
    /\ tr_df[i].amount > 0 /\ tr_df[j].amount < 0
    /\ Near(i, j)
    /\ Round2(Abs(tr_df[i].amount)) = Round2(Abs(tr_df[j].amount))
    /\ Candidate[i] /\ Candidate[j]

\* no candidate pair exists in tr_df
NoCandidatePair == \A i, j \in 1..Len(tr_df) : ~CandidatePair(i, j)

\* tr_df without the rows that are a known self-transfer label
WithoutLabels == SelectSeq(tr_df, LAMBDA row : ~mask_customer(row))

\* C14 as stated: whenever no candidate pair exists, the table returned is
\* the input, same rows and same order.
C14_InputUnchanged ==
    (tr_pc = "done" /\ NoCandidatePair) => tr_out = tr_df

\* C14, amended: whenever no candidate pair exists (in particular with no
\* positive or no negative transfer-flagged row), remove_internal_transfers
\* matches no pair and returns the input without the rows that are a known
\* self-transfer label, the other rows unchanged and in their order.
C14_OnlyLabelsRemoved ==
    (tr_pc = "done" /\ NoCandidatePair) =>
        /\ tr_matched = <<>>
        /\ tr_out = WithoutLabels

\* a positive and a negative transfer of equal amount three days apart and a
\* "Customer Transfer Cr." row: the label row is dropped, the two stay
C14_Witness ==
    /\ tr_pc = "done"
    /\ NoCandidatePair
    /\ Len(tr_df) = 3
    /\ \E i, j \in 1..3 : j \in Partners(Candidate, i) /\ ~Near(i, j)
    /\ \E i \in 1..3 : mask_customer(tr_df[i])
    /\ Len(tr_out) = 2

\* the candidate pairs of tr_df within tolerance_days, in the order of the
\* cross-join of the positive and the negative rows
EnumeratedPairs ==
    within_tolerance(potential_pairs(positives(working_frame(tr_df)),
                                     negatives(working_frame(tr_df))), tr_tol)

\* pair a of the enumeration is processed before pair b: its date difference
\* is smaller, or equal and a comes first in the enumeration
ProcessedBefore(pairs, a, b) ==
    \/ pairs[a].date_diff < pairs[b].date_diff
    \/ pairs[a].date_diff = pairs[b].date_diff /\ a < b

\* pairs a and b of the enumeration have a row in common
SharesRow(pairs, a, b) ==
    \/ pairs[a].pair_index_pos = pairs[b].pair_index_pos
    \/ pairs[a].pair_index_neg = pairs[b].pair_index_neg

\* the pairs matched when the enumeration is resolved greedily in that order:
\* a pair is matched exactly if no pair matched before it has consumed one of
\* its rows
GreedyMatched(pairs) ==
    CHOOSE M \in SUBSET (1..Len(pairs)) :
        \A k \in 1..Len(pairs) :
            k \in M <=> ~\E m \in M : ProcessedBefore(pairs, m, k) /\ SharesRow(pairs, m, k)

\* tr_df without the known self-transfer labels and the rows of the pairs M
\* of the enumeration
WithoutPairs(pairs, M) ==
    LET gone == UNION {{pairs[m].pair_index_pos, pairs[m].pair_index_neg} : m \in M}
        idx == SelectSeq(RangeIndex(Len(tr_df)),
                   LAMBDA i : ~mask_customer(tr_df[i]) /\ i \notin gone)
    IN  [k \in 1..Len(idx) |-> tr_df[idx[k]]]

Kept == {i \in 1..Len(tr_df) : ~mask_customer(tr_df[i]) /\ i \notin MatchedIdx}

\* C17: every row of the input that is neither in a matched pair nor a known
\* self-transfer label is in the output once, with its fields unchanged and
\* in the order of the input, and the output holds no other row.
C17_OthersKeptInOrder ==
    tr_pc = "done" =>
        LET kept == Kept
        IN  /\ Len(tr_out) = Cardinality(kept)
            /\ \A i \in kept : tr_out[Cardinality({j \in kept : j <= i})] = tr_df[i]

\* a label row first, then a matched pair around a row that is no transfer:
\* only that row is returned
C17_Witness ==
    /\ tr_pc = "done"
    /\ Len(tr_df) = 3
    /\ mask_customer(tr_df[1])
    /\ ~_matches_transfer_keyword(tr_df[2].description)
    /\ tr_out = <<tr_df[2]>>

\* C18: the output holds no positive and negative transfer-flagged rows of
\* equal absolute amount rounded to cents whose dates differ by at most
\* tolerance_days.
C18_NoPairLeft ==
    tr_pc = "done" =>
        \A a, b \in 1..Len(tr_out) :
            ~(/\ _matches_transfer_keyword(tr_out[a].description)
              /\ _matches_transfer_keyword(tr_out[b].description)
              /\ tr_out[a].amount > 0 /\ tr_out[b].amount < 0
              /\ Round2(Abs(tr_out[a].amount)) = Round2(Abs(tr_out[b].amount))
              /\ Abs(tr_out[a].date - tr_out[b].date) <= tr_tol)

\* +300.004 and -300.00 on one day, which are equal to the cent, are both
\* removed, and a second -300.00 three days later is left with no partner
C18_Witness ==
    /\ tr_pc = "done"
    /\ Len(tr_df) = 3
    /\ Len(tr_matched) = 1
    /\ tr_df[tr_matched[1][1]].amount # -tr_df[tr_matched[1][2]].amount
    /\ Len(tr_out) = 1
    /\ tr_out[1].amount < 0
    /\ _matches_transfer_keyword(tr_out[1].description)
    /\ \A i \in MatchedIdx : Abs(tr_df[i].date - tr_out[1].date) > tr_tol
(***************************************************************************)
(* Claims about clean_transactions (SpecClean).                            *)
(***************************************************************************)
\* C1: clean is idempotent: clean(clean(rows)) equals clean(rows), row for row.
C1_CleanIdempotent == cl_pc = "twice" => cl_twice = cl_once

(***************************************************************************)
(* Claims about deterministic_lookup (SpecLookup).                         *)
(***************************************************************************)
\* the entries of the keyword table whose keyword the description holds
KeywordHits(description) ==
    {k \in 1..Len(DETERMINISTIC_KEYWORDS) : Contains(description, DETERMINISTIC_KEYWORDS[k][1])}

\* C9: a description that holds several keywords of the table gets the mapping
\* of the keyword that comes first in the table, wherever the keywords stand
\* in the description; one that holds none gets no mapping.
C9_KeywordPriority ==
    lk_pc = "done" =>
        LET hits == KeywordHits(normalize(lk_desc))
        IN  IF hits = {} THEN lk_result = None
            ELSE lk_result = DETERMINISTIC_KEYWORDS[Min(hits)][2]

\* "transfer rent": "transfer" stands first in the description, "rent" first
\* in the table, and the row resolves to (Housing, Rent)
C9_Witness ==
    /\ lk_pc = "done"
    /\ normalize(lk_desc) = <<"t", "r", "a", "n", "s", "f", "e", "r", " ", "r", "e", "n", "t">>
    /\ Cardinality(KeywordHits(normalize(lk_desc))) >= 2
    /\ lk_result = <<"Housing", "Rent">>

\* C19: a description that is a keyword of the table resolves to the mapping
\* of that very entry.
C19_EveryEntryEffective ==
    lk_pc = "done" =>
        \A k \in 1..Len(DETERMINISTIC_KEYWORDS) :
            normalize(lk_desc) = DETERMINISTIC_KEYWORDS[k][1] =>
                lk_result = DETERMINISTIC_KEYWORDS[k][2]

(***************************************************************************)
(* Claims about read_scotiabank_csv (SpecReader).                          *)
(***************************************************************************)
\* the header of the file holds column c
HasColumn(c) == \E k \in 1..Len(rd_header) : rd_header[k] = c

\* the file has no date column, or no description column, or neither an
\* amount column nor both a debit and a credit column
SchemaErrorExpected ==
    \/ ~HasColumn("Date")
    \/ ~HasColumn("Description")
    \/ ~(HasColumn("Amount") \/ (HasColumn("Debit") /\ HasColumn("Credit")))

\* C12: read_scotiabank_csv raises exactly when the file has no date column,
\* or no description column, or neither an amount column nor both a debit and
\* a credit column; it returns a table in every other case, and no table
\* when it raises.
C12_SchemaErrorExactly ==
    rd_pc = "done" =>
        /\ rd_raised # "none" <=> SchemaErrorExpected
        /\ rd_raised # "none" => (rd_out = <<>> /\ cl_pc = "idle")

\* the lines of the file that are to survive: the date is a date and, where
\* the file has an Amount column, the Amount cell is a number
Surviving ==
    {k \in 1..Len(rd_rows) :
        rd_rows[k].day # NaN /\ (HasColumn("Amount") => rd_rows[k].value # NaN)}

\* line k of the file is row j of the table
SameRow(k, j) ==
    /\ rd_out[j].date = rd_rows[k].day[1]
    /\ rd_out[j].description = rd_rows[k].Description
    /\ HasColumn("Amount") => rd_out[j].amount = rd_rows[k].value[1]

\* C13: a file with a date, a description and an amount source is read
\* without an error whatever its lines hold; the table has the lines whose
\* date parses and, where there is an Amount column, whose Amount cell parses,
\* and no other; every row of it, and every row clean_transactions makes of
\* it, has a date and an amount.
C13_GarbageRowsDropped ==
    /\ (/\ rd_pc = "done" /\ HasColumn("Date") /\ HasColumn("Description")
        /\ HasColumn("Amount") \/ HasColumn("Debit") \/ HasColumn("Credit")) =>
          /\ rd_raised = "none"
          /\ Len(rd_out) = Cardinality(Surviving)
          /\ \A k \in Surviving : \E j \in 1..Len(rd_out) : SameRow(k, j)
          /\ \A j \in 1..Len(rd_out) :
                /\ \E k \in Surviving : SameRow(k, j)
                /\ rd_out[j].date \in Int /\ rd_out[j].amount \in Int
    /\ cl_pc = "once" =>
          /\ cl_once = <<>> <=> rd_out = <<>>
          /\ \A j \in 1..Len(cl_once) :
                /\ cl_once[j].date \in Int /\ cl_once[j].amount \in Int
                /\ \E i \in 1..Len(rd_out) :
                      /\ cl_once[j].date = rd_out[i].date
                      /\ cl_once[j].amount = rd_out[i].amount

\* Date,Description,Amount with the lines "2024-03-06,Cheque 42,N/A" and
\* "pending,Card Hold,-5.00": no error and an empty table; and with the
\* lines "2024-03-01,Coffee,4.5x" and "2024-03-01,Rent March,-1500.00": the
\* second line alone, cleaned
C13_Witness ==
    /\ rd_pc = "done"
    /\ rd_header = <<"Date", "Description", "Amount">>
    /\ rd_raised = "none"
    /\ \/ /\ Len(rd_rows) = 2
          /\ rd_rows[1].Amount = <<"N", "/", "A">>
          /\ rd_rows[2].Date = <<"p", "e", "n", "d", "i", "n", "g">>
          /\ rd_out = <<>>
       \/ /\ Len(rd_rows) = 2
          /\ rd_rows[1].Amount = <<"4", ".", "5", "x">>
          /\ rd_rows[2].Amount = <<"-", "1", "5", "0", "0", ".", "0", "0">>
          /\ Len(rd_out) = 1
          /\ cl_pc = "once"
          /\ Len(cl_once) = 1
          /\ cl_once[1].amount = -1500000
(***************************************************************************)
(* Claims about the session: load_sample_data, ingest_uploaded_files and   *)
(* transform_dataset as main() runs them (Spec).                           *)
(***************************************************************************)
\* the last run of the body of transform_dataset
Last == transformed[1]

\* the frames a session can load
LoadedFrames ==
    sample_frames
        \cup UNION {load_and_normalize_files(serialize_uploaded_files(files)).frames :
                      files \in Uploads}

\* the normalized descriptions of the rows a session can classify
Descriptions ==
    UNION {{normalize(standardize_description(frame[k].description)) :
               k \in 1..Len(frame)} : frame \in LoadedFrames}

\* what each local lookup finds for each of them
Local ==
    [d \in Descriptions |->
        [deterministic |-> deterministic_lookup(d), fuzzy |-> fuzzy_lookup(d)]]

\* the labels of a row
Labels(row) == <<row.category, row.sub_category>>

\* the rows of the frame whose normalized description is d
RowsOf(frame, d) == {k \in 1..Len(frame) : normalize(frame[k].description) = d}

\* C5: the table the page shows for the built-in sample holds neither of the
\* two $300.00 "Scotia Savings Transfer" rows.
C5_SampleTransfersRemoved ==
    (page.status = "shown" /\ session_state.data_source = <<<<"S", "a", "m", "p", "l", "e", " ", "d", "a", "t", "a", "s", "e", "t">>>>) =>
        \A k \in 1..Len(page.table) :
            ~(/\ page.table[k].description = <<"S", "c", "o", "t", "i", "a", " ", "S", "a", "v", "i", "n", "g", "s", " ", "T", "r", "a", "n", "s", "f", "e", "r">>
              /\ Abs(page.table[k].amount) = 300000)

\* the mappings a strategy can give: the entries of the keyword table, the
\* fuzzy targets, the answers of the remote service and the class defaults
MappingEntries ==
    {PyMapping(DETERMINISTIC_KEYWORDS[k][2]) : k \in 1..Len(DETERMINISTIC_KEYWORDS)}
        \cup {PyMapping(FUZZY_TARGETS[k][2]) : k \in 1..Len(FUZZY_TARGETS)}
        \cup {PyMapping(DEFAULT_MAPPING[c]) : c \in DOMAIN DEFAULT_MAPPING}
        \cup {enrichment_request(REPLIES[r]).value :
                r \in {r \in 1..Len(REPLIES) : enrichment_request(REPLIES[r]).value # None}}

\* C6: every row that classify returns has a category and a sub_category
\* that are not null, and the two are the two halves of one mapping entry,
\* with the remote enrichment on and off.
C6_LabelsFromOneMapping ==
    (transformed # None /\ Last.raised = "none") =>
        \A k \in 1..Len(Last.classified) :
            /\ ~IsNull(Last.classified[k].category)
            /\ ~IsNull(Last.classified[k].sub_category)
            /\ Labels(Last.classified[k]) \in MappingEntries

\* class is one of the two classes, and Earnings exactly for amount > 0
ClassFollowsAmount(row) ==
    /\ row.class \in {"Earnings", "Expenses"}
    /\ row.class = "Earnings" <=> row.amount > 0

\* C7: every row that leaves clean, every row that leaves classify and every
\* row the page shows has a class, which is Earnings if its amount is above
\* zero and Expenses if not.
C7_ClassFollowsAmount ==
    /\ transformed # None =>
          /\ \A k \in 1..Len(Last.cleaned) : ClassFollowsAmount(Last.cleaned[k])
          /\ Last.raised = "none" =>
                /\ Len(Last.classified) = Len(Last.cleaned)
                /\ \A k \in 1..Len(Last.classified) :
                      /\ ClassFollowsAmount(Last.classified[k])
                      /\ Last.classified[k].class = Last.cleaned[k].class
    /\ \A k \in 1..Len(page.table) : ClassFollowsAmount(page.table[k])

\* a classified table with a row of amount zero, which is Expenses, next to
\* rows above and below zero
C7_Witness ==
    /\ transformed # None
    /\ Last.raised = "none"
    /\ \E k \in 1..Len(Last.classified) :
          Last.classified[k].amount = 0 /\ Last.classified[k].class = "Expenses"
    /\ \E k \in 1..Len(Last.classified) :
          Last.classified[k].amount > 0 /\ Last.classified[k].class = "Earnings"
    /\ \E k \in 1..Len(Last.classified) :
          Last.classified[k].amount < 0 /\ Last.classified[k].class = "Expenses"

\* the value the enrichment cache holds for d, or None
Enriched(d) ==
    LET i == cache_index(api_cache, d)
    IN  IF i = 0 THEN None ELSE api_cache[i].value

\* C8: a row gets the mapping of the keyword lookup if there is one, else
\* that of the fuzzy lookup if there is one, else the answer of the remote
\* enrichment if it is on and has one, else the default of its class; and a
\* request goes out only for a description that both local lookups miss,
\* with the enrichment on and the endpoint and the credential set.
C8_StrategyOrder ==
    transformed # None =>
        /\ \A i \in 1..Len(Last.requests) :
              /\ Local[Last.requests[i].description].deterministic = None
              /\ Local[Last.requests[i].description].fuzzy = None
              /\ Last.use_api
              /\ ~Unset(API_URL) /\ ~Unset(API_KEY)
        /\ Last.raised = "none" =>
              \A k \in 1..Len(Last.classified) :
                  LET row == Last.classified[k]
                      d == normalize(row.description)
                  IN  IF Local[d].deterministic # None
                      THEN Labels(row) = PyMapping(Local[d].deterministic)
                      ELSE IF Local[d].fuzzy # None
                      THEN Labels(row) = PyMapping(Local[d].fuzzy)
                      ELSE IF Last.use_api /\ Enriched(d) # None
                      THEN Labels(row) = Enriched(d)
                      ELSE Labels(row) = PyMapping(fallback(row.class))

\* the sample with the enrichment on: "Uber Eats" keeps the mapping of the
\* keyword "uber" though the fuzzy lookup has another, the first "Side Gig
\* Payment" row is asked for once and both rows get the answer
C8_Witness ==
    /\ transformed # None
    /\ Last.raised = "none"
    /\ Last.use_api
    /\ Len(Last.requests) = 1
    /\ Last.requests[1].description = <<"s", "i", "d", "e", " ", "g", "i", "g", " ", "p", "a", "y", "m", "e", "n", "t">>
    /\ Cardinality(RowsOf(Last.classified, <<"s", "i", "d", "e", " ", "g", "i", "g", " ", "p", "a", "y", "m", "e", "n", "t">>)) = 2
    /\ \A k \in RowsOf(Last.classified, <<"s", "i", "d", "e", " ", "g", "i", "g", " ", "p", "a", "y", "m", "e", "n", "t">>) :
          Labels(Last.classified[k]) = <<PyStr("Dining"), PyStr("Takeout")>>
    /\ \E k \in RowsOf(Last.classified, <<"u", "b", "e", "r", " ", "e", "a", "t", "s">>) :
          /\ Local[<<"u", "b", "e", "r", " ", "e", "a", "t", "s">>].fuzzy = <<"Food & Drink", "Delivery">>
          /\ Labels(Last.classified[k]) = PyMapping(<<"Transport", "Ride Share">>)

\* the replies that are failures of the remote step: an HTTP error status, a
\* network error on connecting or on reading, a timeout, a body that is not
\* JSON, and a JSON body that is not an object with string fields
FAILURES ==
    {"http 500", "connection refused", "timeout", "reset while reading",
     "incomplete read", "not utf-8", "not json", "json array", "json null",
     "number category", "nan category"}

\* C10: whenever the service fails on a request, classify returns and the
\* rows of the description asked for have the default of their class.
C10_FailuresAbsorbed ==
    transformed # None =>
        \A i \in 1..Len(Last.requests) :
            Last.requests[i].reply \in FAILURES =>
                /\ Last.raised = "none"
                /\ \A k \in RowsOf(Last.classified, Last.requests[i].description) :
                      Labels(Last.classified[k]) = PyMapping(fallback(Last.classified[k].class))

(***************************************************************************)
(* Claims about the enrichment cache over the calls of one process         *)
(* (SpecEnrich).                                                           *)
(***************************************************************************)
\* every entry of cache is an entry of later
EntriesKept(cache, later) ==
    \A i \in 1..Len(cache) : \E j \in 1..Len(later) : later[j] = cache[i]

\* C11: over the calls of classify in one process at most one request goes
\* out for each normalized description, however many other descriptions are
\* looked up in between, and an entry the cache holds is never removed or
\* replaced.
C11_OneRequestAppendOnly ==
    [][/\ \A d \in DOMAIN en_sent' : en_sent'[d] <= 1
       /\ EntriesKept(api_cache, api_cache')]_vars

\* the value a call to the service for description returns now, None if it
\* raises
fresh_call(description) ==
    _call_enrichment_api(API_URL, API_KEY, REPLIES[service[description]])

TransfersIdle ==
    /\ tr_pc = "idle" /\ tr_df = <<>> /\ tr_tol = DefaultToleranceDays
    /\ tr_out = <<>> /\ tr_matched = <<>>

CleanIdle == cl_pc = "idle" /\ cl_df = <<>> /\ cl_once = <<>> /\ cl_twice = <<>>

LookupIdle == lk_pc = "idle" /\ lk_desc = <<>> /\ lk_result = None

ReaderIdle ==
    /\ rd_pc = "idle" /\ rd_header = <<>> /\ rd_rows = <<>>
    /\ rd_raised = "none" /\ rd_out = <<>>

EnrichIdle ==
    /\ en_df = <<>> /\ en_use_api = FALSE /\ en_out = None
    /\ en_sent = <<>> /\ en_statements = 0

AppIdle ==
    /\ API_URL = None /\ API_KEY = None
    /\ service = None
    /\ st_cache = [load_sample_data |-> {}, ingest_uploaded_files |-> {},
                   transform_dataset |-> {}]
    /\ api_cache = <<>>
    /\ session_state = [raw_df |-> None, data_source |-> None,
                        use_api_toggle |-> FALSE, _acceptance_tests_run |-> FALSE]
    /\ transformed = None
    /\ uploaded_files = <<>>
    /\ page = Page("closed", "none", <<>>, FALSE)
    /\ runs = 0

InitTransfers == TransfersInit /\ CleanIdle /\ LookupIdle /\ ReaderIdle /\ AppIdle /\ EnrichIdle

NextTransfers == RemoveInternalTransfers

SpecTransfers == InitTransfers /\ [][NextTransfers]_vars

InitClean == CleanInit /\ TransfersIdle /\ LookupIdle /\ ReaderIdle /\ AppIdle /\ EnrichIdle

NextClean == Clean \/ CleanAgain

SpecClean == InitClean /\ [][NextClean]_vars

InitLookup == LookupInit /\ TransfersIdle /\ CleanIdle /\ ReaderIdle /\ AppIdle /\ EnrichIdle

NextLookup == Lookup

SpecLookup == InitLookup /\ [][NextLookup]_vars

InitReader == ReaderInit /\ TransfersIdle /\ CleanIdle /\ LookupIdle /\ AppIdle /\ EnrichIdle

NextReader == ReadFile \/ Clean

SpecReader == InitReader /\ [][NextReader]_vars

InitEnrich == EnrichInit /\ TransfersIdle /\ CleanIdle /\ LookupIdle /\ ReaderIdle

NextEnrich == ClassifyRows \/ ClassifyStatement

SpecEnrich == InitEnrich /\ [][NextEnrich]_vars

Init == AppInit /\ TransfersIdle /\ CleanIdle /\ LookupIdle /\ ReaderIdle /\ EnrichIdle

Next == OpenPage \/ UseSampleData \/ UploadFiles \/ ToggleApi

Spec == Init /\ [][Next]_vars

=============================================================================
